---- MODULE Spec2Model ----
(***************************************************************************)
(* A model of picofun's generation pipeline: security-scheme selection     *)
(* (picofun/security.py), endpoint filtering (picofun/endpoint_filter.py)  *)
(* and server-URL / name resolution and function generation                *)
(* (picofun/lambda_generator.py).                                          *)
(*                                                                         *)
(* Python str values that the code takes apart (paths, glob patterns,      *)
(* URLs, methods, function names) are sequences of one-character strings.  *)
(* Names the code only compares (scheme names, types, operation ids, tags) *)
(* are plain strings.  Python's None is the value None.  A dict whose order *)
(* matters is a sequence of entries with distinct keys, in insertion       *)
(* order; a dict read with .get() is a record that has a field exactly for *)
(* the keys present.                                                       *)
(***************************************************************************)
EXTENDS Integers, Sequences, FiniteSets, TLC

None == "None"

\* None where the other values are records
PyNone == [none |-> TRUE]

(* Each component has its own specification (SpecSec, ...); the variables   *)
(* of the components a specification does not exercise stay idle.          *)
VARIABLES
    schemes,          \* security.py: dict name -> SecurityScheme, in order
    global_security,  \* security.py: list of referenced scheme names
    sec_pc,           \* "call" before select_security_scheme, "done" after
    sec_result,       \* what select_security_scheme returned or raised
    glob_pattern,     \* endpoint_filter.py: _glob_match's pattern argument
    glob_path,        \* endpoint_filter.py: _glob_match's path argument
    glob_pc,          \* "call" before _glob_match, "done" after
    glob_result,      \* what _glob_match returned
    filter_file,      \* EndpointFilter.__init__'s argument: None or the file
    _paths,           \* EndpointFilter._paths
    _operation_ids,   \* EndpointFilter._operation_ids
    _tags,            \* EndpointFilter._tags
    _has_filters,     \* EndpointFilter._has_filters
    filt_pc,          \* "new", then "ready" or "failed", "called" after is_included
    filt_error,       \* the error __init__ raised, or None
    incl_args,        \* the (path, method, details) of the is_included call
    incl_result,      \* what is_included returned
    config_server,    \* config.py: Config.server, None or a ServerConfig
    server_spec,      \* the spec's servers[0] object
    url_pc,           \* "call" before _resolve_server_url, "done" after
    url_result,       \* what _resolve_server_url returned or raised
    namespace,        \* LambdaGenerator.__init__'s namespace argument
    name_args,        \* the (method, path) of the _get_name call
    name_pc,          \* "ready" once the generator is constructed
    name_results,     \* what the _get_name calls so far returned, in order
    api_paths,        \* api_data["paths"]: path -> (method -> details), ordered
    gen_pc,           \* generate: "start", "loop", "done" or "failed"
    gen_i,            \* index of the path the outer loop is at
    gen_j,            \* index of the item the inner loop is at
    gen_base_url,     \* generate's base_url
    lambdas,          \* generate's lambdas list
    files,            \* the files of the lambdas directory, name and content
    gen_result,       \* what generate returned or raised
    cfg_file,         \* config.py: the config file ConfigLoader is given
    config,           \* the Config object's fields
    cfg_pc,           \* "start", "loaded", "failed" or "merged"
    cfg_kwargs,       \* the overrides merge was called with
    cfg_error,        \* what the last call on the Config raised, or NoError
    file_path,        \* ConfigLoader: the path it is constructed with, or None
    disk,             \* what is at each path where a config file can be
    _config_file,     \* ConfigLoader._config_file
    _config,          \* ConfigLoader._config
    ldr_pc,           \* "new", "located" after _get_config_file, "done"
    ldr_error,        \* what ConfigLoader(file_path) raised, or NoError
    val_field,        \* config.py: the field whose validator is called
    val_input,        \* the value the validator is called with
    val_pc,           \* "call", "once" after the call, "twice" after the second
    val_result,       \* what the validator returned or raised
    val_again,        \* what it returned or raised when given its own result
    main_cli,         \* cli.py: main's options once --cdk and --tf are resolved
    main_pc,          \* the statement of main that runs next, or "exit"
    selected_scheme,  \* main's selected_scheme
    auth_scheme_type, \* main's auth_scheme_type
    main_log,         \* the records main has logged, in order
    main_written,     \* the artifacts written to the output directory
    main_exit,        \* how main ended: returned, typer.Exit or an exception
    infra_call,       \* the arguments iac_generator.generate was called with
    auth_hooks_context \* the context the auth hooks template was rendered with

secVars == <<schemes, global_security, sec_pc, sec_result>>
globVars == <<glob_pattern, glob_path, glob_pc, glob_result>>
filterObj == <<_paths, _operation_ids, _tags, _has_filters>>
filterVars == <<filter_file, filterObj, filt_pc, filt_error, incl_args, incl_result>>
urlVars == <<config_server, server_spec, url_pc, url_result>>
nameVars == <<namespace, name_args, name_pc, name_results>>
genVars == <<api_paths, gen_pc, gen_i, gen_j, gen_base_url, lambdas, files, gen_result>>
cfgVars == <<cfg_file, config, cfg_pc, cfg_kwargs, cfg_error>>
ldrVars == <<file_path, disk, _config_file, _config, ldr_pc, ldr_error>>
valVars == <<val_field, val_input, val_pc, val_result, val_again>>
mainVars == <<main_cli, main_pc, selected_scheme, auth_scheme_type, main_log,
              main_written, main_exit, infra_call, auth_hooks_context>>

----------------------------------------------------------------------------
(* Generic helpers for Python lists and dicts                              *)

Range(s) == {s[i] : i \in 1..Len(s)}

\* the sequences over S of length at most n
SeqsUpTo(S, n) == UNION {[1..k -> S] : k \in 0..n}

\* the sequences over S without repeated elements
DistinctSeqs(S) ==
    {s \in SeqsUpTo(S, Cardinality(S)) : \A i, j \in 1..Len(s) : i # j => s[i] # s[j]}

\* the line feed character
NL == "\n"

\* s[i:].startswith(old), for a 1-based i
HasAt(s, old, i) ==
    /\ i + Len(old) - 1 <= Len(s)
    /\ \A k \in 1..Len(old) : s[i + k - 1] = old[k]

\* Python's str.replace(old, new) for a non-empty old: every occurrence,
\* found left to right without overlap, is replaced
RECURSIVE ReplaceFrom(_, _, _, _)
ReplaceFrom(s, old, new, i) ==
    IF i > Len(s) THEN <<>>
    ELSE IF HasAt(s, old, i) THEN new \o ReplaceFrom(s, old, new, i + Len(old))
    ELSE <<s[i]>> \o ReplaceFrom(s, old, new, i + 1)

\* only the first occurrence is replaced
RECURSIVE MutReplaceFrom(_, _, _, _)
MutReplaceFrom(s, old, new, i) ==
    IF i > Len(s) THEN <<>>
    ELSE IF HasAt(s, old, i) THEN new \o SubSeq(s, i + Len(old), Len(s))
    ELSE <<s[i]>> \o MutReplaceFrom(s, old, new, i + 1)

Mut_str_replace(s, old, new) == MutReplaceFrom(s, old, new, 1)

str_replace(s, old, new) == ReplaceFrom(s, old, new, 1)

\* the characters used, in code point order
CodePointOrder ==
    <<NL, ".", "/", "0", "1", "2", "3", "4", "5", "6", "7", "8", "9",
      "E", "G", "L", "T", "_",
      "a", "b", "c", "d", "e", "f", "g", "h", "i", "n", "o", "p", "r", "s", "t",
      "u", "x", "y", "{", "}">>

\* the rank of a character's code point among the characters used
Ord(c) == CHOOSE i \in 1..Len(CodePointOrder) : CodePointOrder[i] = c

\* Python's s[:k] for any integer k
SlicePrefix(s, k) ==
    IF k >= 0 THEN SubSeq(s, 1, IF k < Len(s) THEN k ELSE Len(s))
    ELSE SubSeq(s, 1, IF Len(s) + k > 0 THEN Len(s) + k ELSE 0)

----------------------------------------------------------------------------
(* picofun/security.py                                                     *)

\* the longest global security list tried
MaxRefs == 3

SchemeNames == {"a", "b", "c"}

\* the (type, in, scheme) combinations a spec can declare; extraction
\* keeps any type and leaves absent attributes None
SchemeShapes ==
    { [type |-> "http",          location |-> None,     scheme |-> "bearer"],
      [type |-> "http",          location |-> None,     scheme |-> "basic"],
      [type |-> "http",          location |-> None,     scheme |-> "digest"],
      [type |-> "apiKey",        location |-> "header", scheme |-> None],
      [type |-> "apiKey",        location |-> "query",  scheme |-> None],
      [type |-> "apiKey",        location |-> "cookie", scheme |-> None],
      [type |-> "apiKey",        location |-> None,     scheme |-> None],
      [type |-> "mutualTLS",     location |-> None,     scheme |-> None],
      [type |-> "oauth2",        location |-> None,     scheme |-> None],
      [type |-> "openIdConnect", location |-> None,     scheme |-> None],
      [type |-> "unknown",       location |-> None,     scheme |-> "digest"] }

SecurityScheme(n, sh) ==
    [name |-> n, type |-> sh.type, location |-> sh.location, scheme |-> sh.scheme]

_is_supported_scheme(scheme) ==
    IF scheme.type = "apiKey" THEN TRUE
    ELSE IF scheme.type = "http" /\ scheme.scheme \in {"basic", "bearer"} THEN TRUE
    ELSE scheme.type = "mutualTLS"

\* every type that is not supported counts as unsupported
Mut_is_unsupported_scheme(scheme) ==
    scheme.type \notin {"apiKey", "http", "mutualTLS"}

_is_unsupported_scheme(scheme) == scheme.type \in {"oauth2", "openIdConnect"}

\* a slip in the ranking: basic ranked ahead of bearer
Mut_get_scheme_priority(scheme) ==
    IF scheme.type = "http" /\ scheme.scheme = "bearer" THEN 2
    ELSE IF scheme.type = "http" /\ scheme.scheme = "basic" THEN 1
    ELSE IF scheme.type = "apiKey" /\ scheme.location = "header" THEN 3
    ELSE IF scheme.type = "apiKey" /\ scheme.location = "query" THEN 4
    ELSE IF scheme.type = "apiKey" /\ scheme.location = "cookie" THEN 5
    ELSE IF scheme.type = "mutualTLS" THEN 6
    ELSE 999

_get_scheme_priority(scheme) ==
    IF scheme.type = "http" /\ scheme.scheme = "bearer" THEN 1
    ELSE IF scheme.type = "http" /\ scheme.scheme = "basic" THEN 2
    ELSE IF scheme.type = "apiKey" /\ scheme.location = "header" THEN 3
    ELSE IF scheme.type = "apiKey" /\ scheme.location = "query" THEN 4
    ELSE IF scheme.type = "apiKey" /\ scheme.location = "cookie" THEN 5
    ELSE IF scheme.type = "mutualTLS" THEN 6
    ELSE 999

\* Python's min(list, key=...): the first element whose key is minimal
RECURSIVE MinByPriority(_)
MinByPriority(s) ==
    IF Len(s) = 1 THEN s[1]
    ELSE LET rest == MinByPriority(Tail(s))
         IN  IF _get_scheme_priority(rest) < _get_scheme_priority(Head(s))
             THEN rest ELSE Head(s)

\* the error object: its message lists the names it was built from
UnsupportedSecuritySchemeError(names) ==
    [kind |-> "UnsupportedSecuritySchemeError", value |-> names]

Returned(v) == [kind |-> "return", value |-> v]

\* the error lists every referenced scheme that is not supported
Mut_select_security_scheme(schs, refs) ==
    IF schs = <<>> THEN Returned(PyNone)
    ELSE
      LET referenced_schemes == SelectSeq(schs, LAMBDA s : s.name \in Range(refs))
          supported_schemes == SelectSeq(referenced_schemes, _is_supported_scheme)
          not_supported == SelectSeq(referenced_schemes,
                                     LAMBDA s : ~_is_supported_scheme(s))
          unsupported_scheme_names ==
              [i \in 1..Len(not_supported) |-> not_supported[i].name]
      IN  IF referenced_schemes = <<>> THEN Returned(PyNone)
          ELSE IF unsupported_scheme_names # <<>> /\ supported_schemes = <<>>
               THEN UnsupportedSecuritySchemeError(unsupported_scheme_names)
          ELSE IF supported_schemes = <<>> THEN Returned(PyNone)
          ELSE Returned(MinByPriority(supported_schemes))

\* the scheme referenced first is looked at first
Mut_select_security_scheme_by_reference(schs, refs) ==
    IF schs = <<>> THEN Returned(PyNone)
    ELSE
      LET first == SelectSeq(schs, LAMBDA s : refs # <<>> /\ s.name = refs[1])
          others == SelectSeq(schs, LAMBDA s : s.name \in Range(refs)
                                               /\ s.name # refs[1])
          referenced_schemes == first \o others
          supported_schemes == SelectSeq(referenced_schemes, _is_supported_scheme)
          unsupported == SelectSeq(referenced_schemes, _is_unsupported_scheme)
          unsupported_scheme_names ==
              [i \in 1..Len(unsupported) |-> unsupported[i].name]
      IN  IF referenced_schemes = <<>> THEN Returned(PyNone)
          ELSE IF unsupported_scheme_names # <<>> /\ supported_schemes = <<>>
               THEN UnsupportedSecuritySchemeError(unsupported_scheme_names)
          ELSE IF supported_schemes = <<>> THEN Returned(PyNone)
          ELSE Returned(MinByPriority(supported_schemes))

select_security_scheme(schs, refs) ==
    IF schs = <<>> THEN Returned(PyNone)
    ELSE
      LET referenced_schemes == SelectSeq(schs, LAMBDA s : s.name \in Range(refs))
          supported_schemes == SelectSeq(referenced_schemes, _is_supported_scheme)
          unsupported == SelectSeq(referenced_schemes, _is_unsupported_scheme)
          unsupported_scheme_names ==
              [i \in 1..Len(unsupported) |-> unsupported[i].name]
      IN  IF referenced_schemes = <<>> THEN Returned(PyNone)
          ELSE IF unsupported_scheme_names # <<>> /\ supported_schemes = <<>>
               THEN UnsupportedSecuritySchemeError(unsupported_scheme_names)
          ELSE IF supported_schemes = <<>> THEN Returned(PyNone)
          ELSE Returned(MinByPriority(supported_schemes))

\* every schemes dict whose keys are names of SchemeNames, in every order
SchemeMaps ==
    UNION { { [i \in 1..Len(ns) |-> SecurityScheme(ns[i], shs[i])] :
              shs \in [1..Len(ns) -> SchemeShapes] } :
            ns \in DistinctSeqs(SchemeNames) }

SecIdle ==
    /\ schemes = <<>>
    /\ global_security = <<>>
    /\ sec_pc = "idle"
    /\ sec_result = None

SecInit ==
    /\ schemes \in SchemeMaps
    /\ global_security \in SeqsUpTo(SchemeNames, MaxRefs)
    /\ sec_pc = "call"
    /\ sec_result = None

\* cli.main's call of select_security_scheme(schemes, global_security)
SelectScheme ==
    /\ sec_pc = "call"
    /\ sec_result' = select_security_scheme(schemes, global_security)
    /\ sec_pc' = "done"
    /\ UNCHANGED <<schemes, global_security>>

----------------------------------------------------------------------------
(* Claims about select_security_scheme, checked under SpecSec             *)

\* the priority table as the specification words it; a scheme the table
\* does not list has no number and ranks after every listed one
ClaimRank(s) ==
    CASE s.type = "http" /\ s.scheme = "bearer"      -> 1
      [] s.type = "http" /\ s.scheme = "basic"       -> 2
      [] s.type = "apiKey" /\ s.location = "header"  -> 3
      [] s.type = "apiKey" /\ s.location = "query"   -> 4
      [] s.type = "apiKey" /\ s.location = "cookie"  -> 5
      [] s.type = "mutualTLS"                        -> 6
      [] OTHER                                       -> 7

ClaimSupported(s) ==
    \/ s.type = "apiKey"
    \/ s.type = "http" /\ s.scheme \in {"basic", "bearer"}
    \/ s.type = "mutualTLS"

Referenced == {schemes[i] : i \in {j \in 1..Len(schemes) :
                                    \E k \in 1..Len(global_security) :
                                        global_security[k] = schemes[j].name}}

ReferencedSupported == {s \in Referenced : ClaimSupported(s)}

ReferencedOAuth == {s \in Referenced : s.type \in {"oauth2", "openIdConnect"}}

\* C1: whenever some referenced scheme is supported, select_security_scheme
\* returns (raises nothing) a referenced, supported scheme whose priority
\* number is the lowest among the referenced supported schemes, also when
\* oauth2/openIdConnect schemes are referenced beside it.
C1_LowestPriority ==
    (sec_pc = "done" /\ ReferencedSupported # {}) =>
        /\ sec_result.kind = "return"
        /\ sec_result.value \in ReferencedSupported
        /\ \A s \in ReferencedSupported :
               ClaimRank(sec_result.value) <= ClaimRank(s)

\* a run where two ranks compete, an oauth2 scheme is referenced too and
\* the winner is not the first entry of the map
C1_Witness ==
    /\ sec_pc = "done"
    /\ Cardinality(ReferencedSupported) = 2
    /\ ReferencedOAuth # {}
    /\ sec_result.kind = "return"
    /\ sec_result.value # schemes[1]
    /\ \E s \in ReferencedSupported : ClaimRank(s) > ClaimRank(sec_result.value)

\* C2: when an oauth2/openIdConnect scheme is referenced and no supported
\* scheme is, select_security_scheme raises UnsupportedSecuritySchemeError
\* carrying exactly the names of the referenced oauth2/openIdConnect schemes,
\* each once; unreferenced schemes and referenced schemes of other types are
\* not listed and do not prevent the error.
C2_UnsupportedError ==
    (sec_pc = "done" /\ ReferencedOAuth # {} /\ ReferencedSupported = {}) =>
        /\ sec_result.kind = "UnsupportedSecuritySchemeError"
        /\ Range(sec_result.value) = {s.name : s \in ReferencedOAuth}
        /\ Len(sec_result.value) = Cardinality(ReferencedOAuth)

\* the error is raised although the map also holds an unreferenced supported
\* scheme and a referenced scheme of a type that is neither
C2_Witness ==
    /\ sec_pc = "done"
    /\ sec_result.kind = "UnsupportedSecuritySchemeError"
    /\ \E i \in 1..Len(schemes) :
           ClaimSupported(schemes[i]) /\ schemes[i] \notin Referenced
    /\ \E s \in Referenced :
           ~ClaimSupported(s) /\ s \notin ReferencedOAuth

\* C25: select_security_scheme returns None and raises nothing when the
\* schemes map is empty, when no scheme of the map is referenced, or when the
\* referenced schemes hold neither a supported scheme nor an
\* oauth2/openIdConnect scheme
C25_NoScheme ==
    (/\ sec_pc = "done"
     /\ \/ schemes = <<>>
        \/ \A i \in 1..Len(schemes) :
               \A k \in 1..Len(global_security) :
                   global_security[k] # schemes[i].name
        \/ ReferencedSupported = {} /\ ReferencedOAuth = {})
    => sec_result = Returned(PyNone)

\* None is returned although schemes are referenced: they are of kinds that
\* are neither supported nor oauth2/openIdConnect
C25_Witness ==
    /\ sec_pc = "done"
    /\ Cardinality(Referenced) = 2
    /\ \E s \in Referenced : s.type = "http"
    /\ \E s \in Referenced : s.type = "unknown"
    /\ sec_result = Returned(PyNone)

\* C27: every scheme _is_supported_scheme accepts has a priority from 1 to
\* 6, so 999 is never the priority of a scheme that is compared or returned
C27_PriorityRange ==
    sec_pc = "done" =>
        /\ \A i \in 1..Len(schemes) :
               _is_supported_scheme(schemes[i]) =>
                   _get_scheme_priority(schemes[i]) \in 1..6
        /\ (sec_result.kind = "return" /\ sec_result.value # PyNone) =>
               _get_scheme_priority(sec_result.value) # 999

\* the same entries with two neighbours swapped; every order of the entries
\* is reached by such swaps, and every order is itself a call that is made
ClaimOrders(s) ==
    {[i \in 1..Len(s) |-> IF i = k THEN s[k + 1]
                          ELSE IF i = k + 1 THEN s[k] ELSE s[i]] :
         k \in 1..(Len(s) - 1)}

\* two referenced supported schemes have the same priority
ClaimTie ==
    \E s, t \in ReferencedSupported :
        s # t /\ _get_scheme_priority(s) = _get_scheme_priority(t)

\* C28 as stated: the scheme chosen does not depend on the order of the
\* map's entries or of the referenced names
C28_OrderFree ==
    (sec_pc = "done" /\ sec_result.kind = "return") =>
        /\ \A refs \in ClaimOrders(global_security) :
               select_security_scheme(schemes, refs) = sec_result
        /\ \A schs \in ClaimOrders(schemes) :
               select_security_scheme(schs, global_security) = sec_result

\* C28: the scheme chosen does not depend on the order of the referenced
\* names, and when no two referenced supported schemes have the same priority
\* it does not depend on the order of the map's entries either
C28_OrderFreeWithoutTie ==
    (sec_pc = "done" /\ sec_result.kind = "return") =>
        /\ \A refs \in ClaimOrders(global_security) :
               select_security_scheme(schemes, refs) = sec_result
        /\ ~ClaimTie =>
               \A schs \in ClaimOrders(schemes) :
                   select_security_scheme(schs, global_security) = sec_result

\* three supported schemes of different priorities are referenced, and the
\* one chosen is neither the first of the map nor the first referenced
C28_Witness ==
    /\ sec_pc = "done"
    /\ Cardinality(ReferencedSupported) = 3
    /\ ~ClaimTie
    /\ sec_result.kind = "return"
    /\ sec_result.value # schemes[1]
    /\ sec_result.value.name # global_security[1]

----------------------------------------------------------------------------
(* picofun/endpoint_filter.py: _glob_match                                 *)

\* bounds of the glob inputs
MaxPatternLen == 3
MaxPathLen == 4

PatternChars == {"/", "u", ".", "*"}
PathChars == {"/", "u", ".", NL}

\* the characters re.escape puts a backslash before, among those modelled
ReSpecialChars == {"*", ".", "{", "}", "-", NL}

\* re.escape(pattern)
RECURSIVE re_escape(_)
re_escape(pattern) ==
    IF pattern = <<>> THEN <<>>
    ELSE (IF Head(pattern) \in ReSpecialChars
          THEN <<"\\", Head(pattern)>> ELSE <<Head(pattern)>>)
         \o re_escape(Tail(pattern))

EscapedStar == <<"\\", "*">>
AnyRun == <<".", "+">>
SegmentRun == <<"[", "^", "/", "]", "+">>

\* the wildcards rewritten in the wrong order: * before **
MutGlobRegex(pattern) ==
    <<"^">> \o str_replace(str_replace(re_escape(pattern), EscapedStar, SegmentRun),
                           EscapedStar \o EscapedStar, AnyRun) \o <<"$">>

\* the regex text _glob_match builds: ** is rewritten before *
GlobRegex(pattern) ==
    <<"^">> \o str_replace(str_replace(re_escape(pattern),
                                       EscapedStar \o EscapedStar, AnyRun),
                           EscapedStar, SegmentRun) \o <<"$">>

\* re.match of the regex text r from its index i at position j of path.
\* The text holds only: ^, an escaped character, .+ (one or more characters
\* other than a line feed), [^/]+ (one or more characters other than /), a
\* plain character, and the final $ (the end, or just before a line feed
\* that ends the string).
RECURSIVE ReMatch(_, _, _, _)
ReMatch(r, i, path, j) ==
    IF i = Len(r)
        THEN j = Len(path) + 1 \/ (j = Len(path) /\ path[j] = NL)
    ELSE IF r[i] = "^"
        THEN j = 1 /\ ReMatch(r, i + 1, path, j)
    ELSE IF r[i] = "\\"
        THEN j <= Len(path) /\ path[j] = r[i + 1] /\ ReMatch(r, i + 2, path, j + 1)
    ELSE IF HasAt(r, AnyRun, i)
        THEN \E k \in 1..(Len(path) - j + 1) :
                 /\ \A m \in j..(j + k - 1) : path[m] # NL
                 /\ ReMatch(r, i + 2, path, j + k)
    ELSE IF HasAt(r, SegmentRun, i)
        THEN \E k \in 1..(Len(path) - j + 1) :
                 /\ \A m \in j..(j + k - 1) : path[m] # "/"
                 /\ ReMatch(r, i + 5, path, j + k)
    ELSE j <= Len(path) /\ path[j] = r[i] /\ ReMatch(r, i + 1, path, j + 1)

_glob_match(pattern, path) ==
    IF "*" \notin Range(pattern) THEN pattern = path
    ELSE ReMatch(GlobRegex(pattern), 1, path, 1)

GlobIdle ==
    /\ glob_pattern = <<>>
    /\ glob_path = <<>>
    /\ glob_pc = "idle"
    /\ glob_result = None

GlobInit ==
    /\ glob_pattern \in SeqsUpTo(PatternChars, MaxPatternLen)
    /\ glob_path \in SeqsUpTo(PathChars, MaxPathLen)
    /\ glob_pc = "call"
    /\ glob_result = None

\* _match_path's call self._glob_match(pattern, path)
GlobMatch ==
    /\ glob_pc = "call"
    /\ glob_result' = _glob_match(glob_pattern, glob_path)
    /\ glob_pc' = "done"
    /\ UNCHANGED <<glob_pattern, glob_path>>

----------------------------------------------------------------------------
(* Claims about _glob_match, checked under SpecGlob                       *)

\* the pattern read as the specification words it: each literal character,
\* "**" (taken before "*") and "*"
RECURSIVE ClaimTokens(_)
ClaimTokens(pattern) ==
    IF pattern = <<>> THEN <<>>
    ELSE IF Len(pattern) >= 2 /\ pattern[1] = "*" /\ pattern[2] = "*"
        THEN <<"**">> \o ClaimTokens(SubSeq(pattern, 3, Len(pattern)))
    ELSE <<pattern[1]>> \o ClaimTokens(Tail(pattern))

\* whether token t matches exactly the characters b+1..e of path
ClaimTokenSpans(t, path, b, e) ==
    CASE t = "**" -> e > b
      [] t = "*"  -> e > b /\ \A m \in (b + 1)..e : path[m] # "/"
      [] OTHER    -> e = b + 1 /\ path[e] = t

\* the lengths of the prefixes of path that the first k tokens can match
RECURSIVE ClaimEnds(_, _, _)
ClaimEnds(tokens, k, path) ==
    IF k = 0 THEN {0}
    ELSE LET before == ClaimEnds(tokens, k - 1, path)
         IN  {e \in 1..Len(path) :
                 \E b \in before : b < e /\ ClaimTokenSpans(tokens[k], path, b, e)}

ClaimGlob(pattern, path) ==
    IF \A i \in 1..Len(pattern) : pattern[i] # "*"
    THEN pattern = path
    ELSE LET tokens == ClaimTokens(pattern)
         IN  Len(path) \in ClaimEnds(tokens, Len(tokens), path)

----------------------------------------------------------------------------
(* picofun/endpoint_filter.py: EndpointFilter                              *)

\* the longest paths list of a filter file
MaxRules == 2

\* the method names used, as Python strs
get == <<"g", "e", "t">>
post == <<"p", "o", "s", "t">>
GET == <<"G", "E", "T">>
trace == <<"t", "r", "a", "c", "e">>

\* the upper case letters used and their lower case
UpperLetters == <<"A", "C", "E", "G", "I", "K", "L", "P", "S", "T", "V", "W">>
LowerLetters == <<"a", "c", "e", "g", "i", "k", "l", "p", "s", "t", "v", "w">>

\* str.lower()
LowerChar(c) ==
    IF \E i \in 1..Len(UpperLetters) : UpperLetters[i] = c
    THEN LowerLetters[CHOOSE i \in 1..Len(UpperLetters) : UpperLetters[i] = c]
    ELSE c

Lower(m) == [i \in 1..Len(m) |-> LowerChar(m[i])]

Has(dict, key) == key \in DOMAIN dict

\* one entry of the file's paths list: without a methods key, with methods,
\* or with an empty methods list
RulePatterns == {<<"/", "u">>, <<"/", "*">>, <<"/", "*", "*">>}
RulePool ==
    [path : RulePatterns] \cup [path : RulePatterns, methods : {<<GET>>, <<post>>}]
    \cup {[path |-> <<"/", "*">>, methods |-> <<>>]}

\* the parsed YAML mappings: those that have at least one of the three keys
\* with something in it, those whose sections are all empty or absent
FilterDocs ==
    LET P == SeqsUpTo(RulePool, MaxRules)
        I == {<<"op1">>}
        T == {<<"t1">>, <<"t1", "t2">>}
    IN  [paths : P] \cup [operationIds : I] \cup [tags : T]
        \cup [paths : P, operationIds : I] \cup [paths : P, tags : T]
        \cup [operationIds : I, tags : T]
        \cup [paths : P, operationIds : I, tags : T]
        \cup {[operationIds |-> <<>>], [tags |-> <<>>],
              [paths |-> <<>>, operationIds |-> <<>>, tags |-> <<>>],
              [version |-> 1]}

\* EndpointFilter() without a file
NoFile == [kind |-> "none"]

\* what the file argument can be: no file, a path with no file behind it,
\* a file yaml cannot parse, an empty (null) document, a document that is a
\* YAML list, or a mapping
FilterFiles ==
    {NoFile, [kind |-> "missing"], [kind |-> "unparseable"], [kind |-> "empty"],
     [kind |-> "list"]}
    \cup {[kind |-> "yaml", data |-> d] : d \in FilterDocs}

\* data.get(key, []) or []
GetList(dict, key) == IF Has(dict, key) THEN dict[key] ELSE <<>>

\* the methods of a path entry, lower-cased when the entry has any
NormalizeEntry(e) ==
    IF Has(e, "methods") /\ e.methods # <<>>
    THEN [e EXCEPT !.methods = [i \in 1..Len(e.methods) |-> Lower(e.methods[i])]]
    ELSE e

\* _load without the check that a criterion is populated
Mut_load(file) ==
    IF file.kind = "yaml"
    THEN LET raw == GetList(file.data, "paths")
         IN  [error |-> None,
              paths |-> [i \in 1..Len(raw) |-> NormalizeEntry(raw[i])],
              operation_ids |-> GetList(file.data, "operationIds"),
              tags |-> GetList(file.data, "tags"), has_filters |-> FALSE]
    ELSE [error |-> None, paths |-> <<>>, operation_ids |-> <<>>,
          tags |-> <<>>, has_filters |-> FALSE]

\* EndpointFilter._load: the error raised (or None) and the fields it sets
_load(file) ==
    LET unset == [error |-> None, paths |-> <<>>, operation_ids |-> <<>>,
                  tags |-> <<>>, has_filters |-> FALSE]
    IN  IF file.kind = "missing"
            THEN [unset EXCEPT !.error = "EndpointFilterFileNotFoundError"]
        ELSE IF file.kind = "unparseable"
            THEN [unset EXCEPT !.error = "EndpointFilterInvalidYAMLError"]
        ELSE IF file.kind = "empty"
            THEN [unset EXCEPT !.error = "EndpointFilterEmptyFileError"]
        ELSE IF file.kind = "list"
            THEN [unset EXCEPT !.error = "AttributeError"]
        ELSE
            LET raw == GetList(file.data, "paths")
                paths == [i \in 1..Len(raw) |-> NormalizeEntry(raw[i])]
                ids == GetList(file.data, "operationIds")
                tags == GetList(file.data, "tags")
                has == paths # <<>> \/ ids # <<>> \/ tags # <<>>
            IN  [error |-> IF has THEN None ELSE "EndpointFilterEmptyFileError",
                 paths |-> paths, operation_ids |-> ids, tags |-> tags,
                 has_filters |-> has]

\* _match_path giving up at the first entry whose glob matches
RECURSIVE Mut_MatchPathFrom(_, _, _, _)
Mut_MatchPathFrom(entries, i, path, method) ==
    IF i > Len(entries) THEN FALSE
    ELSE LET pattern == entries[i].path
             methods == GetList(entries[i], "methods")
         IN  IF _glob_match(pattern, path)
             THEN methods = <<>> \/ method \in Range(methods)
             ELSE Mut_MatchPathFrom(entries, i + 1, path, method)

\* EndpointFilter._match_path over the entries from index i on
RECURSIVE MatchPathFrom(_, _, _, _)
MatchPathFrom(entries, i, path, method) ==
    IF i > Len(entries) THEN FALSE
    ELSE LET pattern == entries[i].path
             methods == GetList(entries[i], "methods")
         IN  IF _glob_match(pattern, path)
                /\ (methods = <<>> \/ method \in Range(methods))
             THEN TRUE
             ELSE MatchPathFrom(entries, i + 1, path, method)

_match_path(entries, path, method) == MatchPathFrom(entries, 1, path, method)

_match_operation_id(ids, operation_id) ==
    IF operation_id = None \/ operation_id = "" THEN FALSE
    ELSE operation_id \in Range(ids)

_match_tags(tags, endpoint_tags) ==
    IF endpoint_tags = <<>> THEN FALSE
    ELSE Range(endpoint_tags) \cap Range(tags) # {}

\* details.get("operationId")
GetOperationId(details) ==
    IF Has(details, "operationId") THEN details.operationId ELSE None

\* the three criteria joined by "and"
Mut_is_included(has, entries, ids, tags, path, method, details) ==
    IF ~has THEN TRUE
    ELSE /\ _match_path(entries, path, Lower(method))
         /\ _match_operation_id(ids, GetOperationId(details))
         /\ _match_tags(tags, GetList(details, "tags"))

\* EndpointFilter.is_included on a filter with the given fields
is_included(has, entries, ids, tags, path, method, details) ==
    IF ~has THEN TRUE
    ELSE \/ _match_path(entries, path, Lower(method))
         \/ _match_operation_id(ids, GetOperationId(details))
         \/ _match_tags(tags, GetList(details, "tags"))

\* the endpoints tried: paths, method keys and details of an operation
InclPaths == {<<"/", "u">>, <<"/", "u", "/", "u">>, <<"/", ".">>}
InclMethods == {get, GET, post}
InclDetails ==
    LET R == {"200"}
        I == {"op1", "op2"}
        T == {<<"t1">>, <<"t3">>, <<"t3", "t2">>}
    IN  [responses : R] \cup [responses : R, operationId : I]
        \cup [responses : R, tags : T]
        \cup [responses : R, operationId : I, tags : T]

FilterIdle ==
    /\ filter_file = NoFile
    /\ _paths = <<>>
    /\ _operation_ids = <<>>
    /\ _tags = <<>>
    /\ _has_filters = FALSE
    /\ filt_pc = "idle"
    /\ filt_error = None
    /\ incl_args = None
    /\ incl_result = None

FilterInit ==
    /\ filter_file \in FilterFiles
    /\ _paths = <<>>
    /\ _operation_ids = <<>>
    /\ _tags = <<>>
    /\ _has_filters = FALSE
    /\ filt_pc = "new"
    /\ filt_error = None
    /\ incl_args = None
    /\ incl_result = None

\* EndpointFilter.__init__(filter_file)
FilterConstruct ==
    /\ filt_pc = "new"
    /\ IF filter_file = NoFile
       THEN /\ filt_pc' = "ready"
            /\ UNCHANGED <<filterObj, filt_error>>
       ELSE LET r == _load(filter_file)
            IN  /\ _paths' = r.paths
                /\ _operation_ids' = r.operation_ids
                /\ _tags' = r.tags
                /\ _has_filters' = r.has_filters
                /\ filt_error' = r.error
                /\ filt_pc' = IF r.error = None THEN "ready" ELSE "failed"
    /\ UNCHANGED <<filter_file, incl_args, incl_result>>

\* a call endpoint_filter.is_included(path, method, details)
IsIncluded ==
    /\ filt_pc = "ready"
    /\ \E path \in InclPaths, method \in InclMethods, details \in InclDetails :
           /\ incl_args' = [path |-> path, method |-> method, details |-> details]
           /\ incl_result' = is_included(_has_filters, _paths, _operation_ids,
                                         _tags, path, method, details)
    /\ filt_pc' = "called"
    /\ UNCHANGED <<filter_file, filterObj, filt_error>>

----------------------------------------------------------------------------
(* Claims about EndpointFilter, checked under SpecFilter                  *)

\* the three criteria as the specification words them, read off the file;
\* a path rule with an empty method list counts as one without a list
ClaimPathCriterion(doc, a) ==
    Has(doc, "paths") /\
    \E i \in 1..Len(doc.paths) :
        /\ ClaimGlob(doc.paths[i].path, a.path)
        /\ \/ ~Has(doc.paths[i], "methods")
           \/ doc.paths[i].methods = <<>>
           \/ \E k \in 1..Len(doc.paths[i].methods) :
                  Lower(doc.paths[i].methods[k]) = Lower(a.method)

ClaimOperationIdCriterion(doc, a) ==
    /\ Has(doc, "operationIds")
    /\ Has(a.details, "operationId")
    /\ \E k \in 1..Len(doc.operationIds) : doc.operationIds[k] = a.details.operationId

ClaimTagCriterion(doc, a) ==
    /\ Has(doc, "tags")
    /\ Has(a.details, "tags")
    /\ \E k \in 1..Len(doc.tags), m \in 1..Len(a.details.tags) :
           doc.tags[k] = a.details.tags[m]

\* C3: for a filter loaded from a file, is_included is true exactly when at
\* least one of the path, operationId and tag criteria matches; for a filter
\* built without a file it is true for every endpoint.
C3_OrLogic ==
    filt_pc = "called" =>
        IF filter_file = NoFile
        THEN incl_result = TRUE
        ELSE incl_result = (\/ ClaimPathCriterion(filter_file.data, incl_args)
                            \/ ClaimOperationIdCriterion(filter_file.data, incl_args)
                            \/ ClaimTagCriterion(filter_file.data, incl_args))

\* an endpoint included by its tag alone, while a path rule and an
\* operationId list are configured and do not match it
C3_Witness ==
    /\ filt_pc = "called"
    /\ filter_file.kind = "yaml"
    /\ Has(filter_file.data, "paths") /\ filter_file.data.paths # <<>>
    /\ Has(filter_file.data, "operationIds")
    /\ Has(incl_args.details, "operationId")
    /\ ~ClaimPathCriterion(filter_file.data, incl_args)
    /\ ~ClaimOperationIdCriterion(filter_file.data, incl_args)
    /\ ClaimTagCriterion(filter_file.data, incl_args)
    /\ incl_result = TRUE

\* no section of the document holds anything
ClaimNoCriteria(doc) ==
    /\ Has(doc, "paths") => doc.paths = <<>>
    /\ Has(doc, "operationIds") => doc.operationIds = <<>>
    /\ Has(doc, "tags") => doc.tags = <<>>

\* C15: constructing an EndpointFilter with a file path fails with
\* EndpointFilterFileNotFoundError when the file is missing, with
\* EndpointFilterInvalidYAMLError when the YAML cannot be parsed and with
\* EndpointFilterEmptyFileError when the document is empty or null or none of
\* paths, operationIds and tags holds anything; whenever the construction
\* succeeds the filter has filters and at least one criterion is populated.
C15_NeverPassEverything ==
    (filt_pc # "new" /\ filter_file # NoFile) =>
        /\ filter_file.kind = "missing" =>
               filt_pc = "failed" /\ filt_error = "EndpointFilterFileNotFoundError"
        /\ filter_file.kind = "unparseable" =>
               filt_pc = "failed" /\ filt_error = "EndpointFilterInvalidYAMLError"
        /\ filter_file.kind = "empty" =>
               filt_pc = "failed" /\ filt_error = "EndpointFilterEmptyFileError"
        /\ (filter_file.kind = "yaml" /\ ClaimNoCriteria(filter_file.data)) =>
               filt_pc = "failed" /\ filt_error = "EndpointFilterEmptyFileError"
        /\ filt_pc # "failed" =>
               /\ filt_error = None
               /\ _has_filters = TRUE
               /\ _paths # <<>> \/ _operation_ids # <<>> \/ _tags # <<>>

\* a document whose three sections are all present and empty was refused
C15_Witness ==
    /\ filt_pc = "failed"
    /\ filter_file.kind = "yaml"
    /\ Has(filter_file.data, "paths") /\ Has(filter_file.data, "tags")
    /\ ClaimNoCriteria(filter_file.data)
    /\ filt_error = "EndpointFilterEmptyFileError"
    /\ _has_filters = FALSE

\* a path rule matches: its glob matches the path and it has no method list
\* or the method, compared without case, is in its list
ClaimRuleMatchesStrict(rule, a) ==
    /\ ClaimGlob(rule.path, a.path)
    /\ \/ ~Has(rule, "methods")
       \/ \E k \in 1..Len(rule.methods) : Lower(rule.methods[k]) = Lower(a.method)

\* the same, an empty method list counting as no list
ClaimRuleMatches(rule, a) ==
    \/ ClaimRuleMatchesStrict(rule, a)
    \/ ClaimGlob(rule.path, a.path) /\ Has(rule, "methods") /\ rule.methods = <<>>

\* the calls that show the path criterion alone: neither the operationId nor
\* the tag criterion holds
ClaimPathDecides ==
    /\ filt_pc = "called"
    /\ filter_file # NoFile
    /\ ~ClaimOperationIdCriterion(filter_file.data, incl_args)
    /\ ~ClaimTagCriterion(filter_file.data, incl_args)

\* C18 as stated: the path criterion holds exactly when some rule's glob
\* matches the path and the rule has no method list or lists the endpoint's
\* method, compared without case.
C18_PathRule ==
    ClaimPathDecides =>
        incl_result = (/\ Has(filter_file.data, "paths")
                       /\ \E i \in 1..Len(filter_file.data.paths) :
                              ClaimRuleMatchesStrict(filter_file.data.paths[i],
                                                     incl_args))

\* C18 (amended): the path criterion holds exactly when some rule's glob
\* matches the path and the rule has no method list, or an empty one, or
\* lists the endpoint's method, compared without case; a rule whose glob
\* matches and whose methods exclude the method does not stop a later rule.
C18_PathRuleEmptyList ==
    ClaimPathDecides =>
        incl_result = (/\ Has(filter_file.data, "paths")
                       /\ \E i \in 1..Len(filter_file.data.paths) :
                              ClaimRuleMatches(filter_file.data.paths[i],
                                               incl_args))

\* the first rule's glob matches and its methods exclude the method, the
\* second rule matches, and the endpoint is included
C18_Witness ==
    /\ ClaimPathDecides
    /\ Has(filter_file.data, "paths")
    /\ Len(filter_file.data.paths) = 2
    /\ ClaimGlob(filter_file.data.paths[1].path, incl_args.path)
    /\ Has(filter_file.data.paths[1], "methods")
    /\ filter_file.data.paths[1].methods = <<GET>>
    /\ incl_args.method = post
    /\ ClaimRuleMatches(filter_file.data.paths[2], incl_args)
    /\ incl_result = TRUE

----------------------------------------------------------------------------
(* picofun/lambda_generator.py: _resolve_server_url                        *)

\* the most pieces a base URL is put together from
MaxUrlPieces == 3

\* a dict in insertion order: a sequence of [name, ...] entries
DictHas(d, k) == \E i \in 1..Len(d) : d[i].name = k
DictEntry(d, k) == d[CHOOSE i \in 1..Len(d) : d[i].name = k]
DictKeys(d) == [i \in 1..Len(d) |-> d[i].name]

RECURSIVE Concat(_)
Concat(ss) == IF ss = <<>> THEN <<>> ELSE Head(ss) \o Concat(Tail(ss))

\* variable names and the values a default or an override can have
SpecVarNames == {<<"a">>, <<"b">>}
ConfigVarNames == {<<"a">>, <<"b">>, <<"c">>}
DefaultValues == {<<"x">>, <<>>, <<"{", "b", "}">>}
OverrideValues == {<<"y">>}

\* base URLs: plain text, tokens and stray braces, in any arrangement
UrlPieces == {<<"h">>, <<"{", "a", "}">>, <<"{", "b", "}">>, <<"{">>, <<"b", "}">>}
BaseUrls == {Concat(ps) : ps \in SeqsUpTo(UrlPieces, MaxUrlPieces)}

\* the spec's variables object: each variable with or without a default
SpecVariableDicts ==
    UNION { { [i \in 1..Len(ns) |-> vs[i]] :
              vs \in {f \in [1..Len(ns) ->
                              [name : SpecVarNames]
                              \cup [name : SpecVarNames, default : DefaultValues]] :
                          \A i \in 1..Len(ns) : f[i].name = ns[i]} } :
            ns \in DistinctSeqs(SpecVarNames) }

ServerSpecs ==
    [url : BaseUrls] \cup [url : BaseUrls, variables : SpecVariableDicts]

\* the config's variables dict, of at most two entries
ConfigVariableDicts ==
    { [i \in 1..Len(ns) |-> [name |-> ns[i], value |-> v]] :
      ns \in {n \in DistinctSeqs(ConfigVarNames) : Len(n) <= 2}, v \in OverrideValues }

\* Config.server: None, or a ServerConfig whose url and variables are
\* mutually exclusive (a field that is None is absent)
NoServerConfig == [kind |-> "None"]
LiteralUrls == {<<>>, <<"L">>}
ServerConfigs ==
    {NoServerConfig, [kind |-> "ServerConfig"]}
    \cup [kind : {"ServerConfig"}, url : LiteralUrls]
    \cup [kind : {"ServerConfig"}, variables : ConfigVariableDicts]

UnknownServerVariableError(variable, available_variables) ==
    [kind |-> "UnknownServerVariableError", variable |-> variable,
     available |-> available_variables]

MissingServerVariableError(variable) ==
    [kind |-> "MissingServerVariableError", variable |-> variable]

NoError == [kind |-> "ok"]

\* self._config.server and self._config.server.url
ConfigUrlSet(cfg) == cfg.kind = "ServerConfig" /\ Has(cfg, "url") /\ cfg.url # <<>>

\* self._config.server and self._config.server.variables
ConfigVariablesSet(cfg) ==
    cfg.kind = "ServerConfig" /\ Has(cfg, "variables") /\ cfg.variables # <<>>

\* the loop of _validate_config_variables from the config's entry i on
RECURSIVE ValidateFrom(_, _, _)
ValidateFrom(cfgvars, i, spec_variables) ==
    IF i > Len(cfgvars) THEN NoError
    ELSE IF ~DictHas(spec_variables, cfgvars[i].name)
         THEN UnknownServerVariableError(cfgvars[i].name, DictKeys(spec_variables))
         ELSE ValidateFrom(cfgvars, i + 1, spec_variables)

_validate_config_variables(cfg, spec_variables) ==
    IF ~ConfigVariablesSet(cfg) THEN NoError
    ELSE ValidateFrom(cfg.variables, 1, spec_variables)

\* a variable without a default raises even when the config overrides it
RECURSIVE Mut_build_variable_values(_, _, _, _)
Mut_build_variable_values(cfg, spec_variables, i, final_variables) ==
    IF i > Len(spec_variables) THEN [kind |-> "ok", value |-> final_variables]
    ELSE LET var_name == spec_variables[i].name
             var_spec == spec_variables[i]
         IN  IF ~Has(var_spec, "default")
                 THEN MissingServerVariableError(var_name)
             ELSE IF ConfigVariablesSet(cfg) /\ DictHas(cfg.variables, var_name)
                 THEN Mut_build_variable_values(cfg, spec_variables, i + 1,
                          Append(final_variables,
                                 [name |-> var_name,
                                  value |-> DictEntry(cfg.variables, var_name).value]))
             ELSE Mut_build_variable_values(cfg, spec_variables, i + 1,
                          Append(final_variables,
                                 [name |-> var_name, value |-> var_spec.default]))

\* the loop of _build_variable_values from the spec's variable i on, with
\* the final_variables collected so far
RECURSIVE _build_variable_values(_, _, _, _)
_build_variable_values(cfg, spec_variables, i, final_variables) ==
    IF i > Len(spec_variables) THEN [kind |-> "ok", value |-> final_variables]
    ELSE LET var_name == spec_variables[i].name
             var_spec == spec_variables[i]
         IN  IF ConfigVariablesSet(cfg) /\ DictHas(cfg.variables, var_name)
                 THEN _build_variable_values(cfg, spec_variables, i + 1,
                          Append(final_variables,
                                 [name |-> var_name,
                                  value |-> DictEntry(cfg.variables, var_name).value]))
             ELSE IF Has(var_spec, "default")
                 THEN _build_variable_values(cfg, spec_variables, i + 1,
                          Append(final_variables,
                                 [name |-> var_name, value |-> var_spec.default]))
             ELSE MissingServerVariableError(var_name)

\* f"{{{var_name}}}"
Token(var_name) == <<"{">> \o var_name \o <<"}">>

\* the replacement loop over final_variables from entry i on
RECURSIVE ReplaceTokens(_, _, _)
ReplaceTokens(resolved_url, final_variables, i) ==
    IF i > Len(final_variables) THEN resolved_url
    ELSE ReplaceTokens(str_replace(resolved_url, Token(final_variables[i].name),
                                   final_variables[i].value),
                       final_variables, i + 1)

\* the final values are built before the config's variables are validated
Mut_resolve_server_url(cfg, spec) ==
    IF ConfigUrlSet(cfg) THEN Returned(cfg.url)
    ELSE
      LET base_url == spec.url
          spec_variables == GetList(spec, "variables")
      IN  IF spec_variables = <<>>
          THEN IF ConfigVariablesSet(cfg)
               THEN UnknownServerVariableError(cfg.variables[1].name, <<>>)
               ELSE Returned(base_url)
          ELSE
            LET checked == _validate_config_variables(cfg, spec_variables)
                built == _build_variable_values(cfg, spec_variables, 1, <<>>)
            IN  IF built.kind # "ok" THEN built
                ELSE IF checked.kind # "ok" THEN checked
                ELSE Returned(ReplaceTokens(base_url, built.value, 1))

\* the literal URL is returned only once the spec's variables have values
Mut_resolve_server_url_late(cfg, spec) ==
    LET built == _build_variable_values(cfg, GetList(spec, "variables"), 1, <<>>)
    IN  IF built.kind # "ok" THEN built
        ELSE IF ConfigUrlSet(cfg) THEN Returned(cfg.url)
        ELSE Returned(ReplaceTokens(spec.url, built.value, 1))

\* LambdaGenerator._resolve_server_url
_resolve_server_url(cfg, spec) ==
    IF ConfigUrlSet(cfg) THEN Returned(cfg.url)
    ELSE
      LET base_url == spec.url
          spec_variables == GetList(spec, "variables")
      IN  IF spec_variables = <<>>
          THEN IF ConfigVariablesSet(cfg)
               THEN UnknownServerVariableError(cfg.variables[1].name, <<>>)
               ELSE Returned(base_url)
          ELSE
            LET checked == _validate_config_variables(cfg, spec_variables)
                built == _build_variable_values(cfg, spec_variables, 1, <<>>)
            IN  IF checked.kind # "ok" THEN checked
                ELSE IF built.kind # "ok" THEN built
                ELSE Returned(ReplaceTokens(base_url, built.value, 1))

UrlIdle ==
    /\ config_server = NoServerConfig
    /\ server_spec = [url |-> <<>>]
    /\ url_pc = "idle"
    /\ url_result = None

UrlInit ==
    /\ config_server \in ServerConfigs
    /\ server_spec \in ServerSpecs
    /\ url_pc = "call"
    /\ url_result = None

\* generate's call self._resolve_server_url(api_data["servers"][0])
ResolveServerUrl ==
    /\ url_pc = "call"
    /\ url_result' = _resolve_server_url(config_server, server_spec)
    /\ url_pc' = "done"
    /\ UNCHANGED <<config_server, server_spec>>

----------------------------------------------------------------------------
(* Claims about _resolve_server_url, checked under SpecUrl                *)

\* the variables the spec's server object declares, in order
Declared == IF Has(server_spec, "variables") THEN server_spec.variables ELSE <<>>

\* the variables the config supplies, in order
Supplied ==
    IF config_server.kind = "ServerConfig" /\ Has(config_server, "variables")
    THEN config_server.variables ELSE <<>>

IsDeclared(n) == \E i \in 1..Len(Declared) : Declared[i].name = n
IsSupplied(n) == \E i \in 1..Len(Supplied) : Supplied[i].name = n

LiteralOverrideSet ==
    /\ config_server.kind = "ServerConfig"
    /\ Has(config_server, "url")
    /\ config_server.url # <<>>

AllSuppliedDeclared == \A i \in 1..Len(Supplied) : IsDeclared(Supplied[i].name)

\* the declared variables that have neither an override nor a default
Unresolvable == {i \in 1..Len(Declared) :
                    ~IsSupplied(Declared[i].name) /\ ~Has(Declared[i], "default")}

\* the override for declared variable i if present, otherwise its default
ClaimValue(i) ==
    IF IsSupplied(Declared[i].name)
    THEN Supplied[CHOOSE k \in 1..Len(Supplied) :
                      Supplied[k].name = Declared[i].name].value
    ELSE Declared[i].default

\* the declared variables whose token stands at position i of url
TokensAt(url, i) == {k \in 1..Len(Declared) : HasAt(url, Token(Declared[k].name), i)}

\* every token of the base URL replaced at once, the rest copied
RECURSIVE SimultaneousFrom(_, _)
SimultaneousFrom(url, i) ==
    IF i > Len(url) THEN <<>>
    ELSE IF TokensAt(url, i) # {}
         THEN LET k == CHOOSE k \in TokensAt(url, i) : \A m \in TokensAt(url, i) : k <= m
              IN  ClaimValue(k)
                  \o SimultaneousFrom(url, i + Len(Token(Declared[k].name)))
         ELSE <<url[i]>> \o SimultaneousFrom(url, i + 1)

BraceFree(str) == \A i \in 1..Len(str) : str[i] \notin {"{", "}"}

\* no brace of url stands outside a token of a declared variable
RECURSIVE NoStrayBraceFrom(_, _)
NoStrayBraceFrom(url, i) ==
    IF i > Len(url) THEN TRUE
    ELSE IF TokensAt(url, i) # {}
         THEN LET k == CHOOSE k \in TokensAt(url, i) : \A m \in TokensAt(url, i) : k <= m
              IN  NoStrayBraceFrom(url, i + Len(Token(Declared[k].name)))
         ELSE url[i] \notin {"{", "}"} /\ NoStrayBraceFrom(url, i + 1)

C5_Case ==
    /\ url_pc = "done"
    /\ ~LiteralOverrideSet
    /\ Declared # <<>>
    /\ AllSuppliedDeclared
    /\ Unresolvable = {}

\* C5 as stated: when the spec declares variables, every supplied variable
\* is declared (and each declared one has an override or a default), the
\* result is the base URL with all tokens of declared variables replaced
\* simultaneously, override before default, other text unchanged.
C5_SimultaneousSubstitution ==
    C5_Case => url_result = Returned(SimultaneousFrom(server_spec.url, 1))

\* C5 amended: the same, provided no variable name and no resolved value
\* holds a brace and the base URL has no brace outside the tokens of
\* declared variables (the code replaces one variable after the other, so a
\* token that a replacement completes is replaced as well).
C5_SubstitutionWithoutStrayBraces ==
    (/\ C5_Case
     /\ \A i \in 1..Len(Declared) :
            BraceFree(Declared[i].name) /\ BraceFree(ClaimValue(i))
     /\ NoStrayBraceFrom(server_spec.url, 1))
    => url_result = Returned(SimultaneousFrom(server_spec.url, 1))

\* a base URL with plain text and the tokens of two variables, one taken
\* from the config and one from its default, resolved to another string
C5_Witness ==
    /\ C5_Case
    /\ Len(Declared) = 2
    /\ \A i \in 1..2 : BraceFree(ClaimValue(i))
    /\ NoStrayBraceFrom(server_spec.url, 1)
    /\ IsSupplied(Declared[1].name) /\ ~IsSupplied(Declared[2].name)
    /\ server_spec.url = <<"h">> \o Token(Declared[2].name) \o Token(Declared[1].name)
    /\ url_result = Returned(<<"h">> \o Declared[2].default \o <<"y">>)

\* the supplied variables the spec does not declare
Undeclared == {i \in 1..Len(Supplied) : ~IsDeclared(Supplied[i].name)}

\* C6: without a literal URL override, a supplied variable the spec does not
\* declare raises UnknownServerVariableError naming the first such variable
\* and listing the declared names (none when the spec declares none), also
\* when a declared variable has neither default nor override.
C6_UnknownVariable ==
    (url_pc = "done" /\ ~LiteralOverrideSet /\ Undeclared # {}) =>
        url_result =
            UnknownServerVariableError(
                Supplied[CHOOSE i \in Undeclared : \A k \in Undeclared : i <= k].name,
                [i \in 1..Len(Declared) |-> Declared[i].name])

\* the unknown variable is the config's second, and a declared variable has
\* neither default nor override
C6_Witness ==
    /\ url_pc = "done"
    /\ Undeclared = {2}
    /\ Unresolvable # {}
    /\ url_result.kind = "UnknownServerVariableError"
    /\ url_result.variable = Supplied[2].name
    /\ Len(url_result.available) = 2

\* C7: when every supplied variable is declared, a declared variable with
\* neither override nor default raises MissingServerVariableError naming it
\* (the first such one); if every declared variable has an override or a
\* default, nothing is raised.
C7_MissingVariable ==
    (url_pc = "done" /\ ~LiteralOverrideSet /\ AllSuppliedDeclared /\ Declared # <<>>) =>
        IF Unresolvable # {}
        THEN url_result =
                 MissingServerVariableError(
                     Declared[CHOOSE i \in Unresolvable :
                                  \A k \in Unresolvable : i <= k].name)
        ELSE url_result.kind = "return"

\* the error names the second declared variable; the first has no default
\* either but the config overrides it
C7_Witness ==
    /\ url_pc = "done"
    /\ AllSuppliedDeclared
    /\ Len(Declared) = 2
    /\ ~Has(Declared[1], "default") /\ IsSupplied(Declared[1].name)
    /\ url_result = MissingServerVariableError(Declared[2].name)

\* a variable without default that the config overrides resolves
C7_WitnessOverride ==
    /\ url_pc = "done"
    /\ AllSuppliedDeclared
    /\ \E i \in 1..Len(Declared) : ~Has(Declared[i], "default")
    /\ url_result.kind = "return"

\* the config's server override has a url, of whatever content
ClaimUrlHeld == config_server.kind = "ServerConfig" /\ Has(config_server, "url")

\* C19 as stated: when the config's server override holds a literal URL, the
\* resolved base URL is that literal for every spec server content, and
\* neither UnknownServerVariableError nor MissingServerVariableError is
\* raised.
C19_LiteralUrl ==
    (url_pc = "done" /\ ClaimUrlHeld) => url_result = Returned(config_server.url)

\* C19 (amended): when the config's server override holds a non-empty literal
\* URL, the resolved base URL is that literal for every spec server content,
\* and neither error is raised even if a spec variable lacks a default.
C19_NonEmptyLiteralUrl ==
    (url_pc = "done" /\ LiteralOverrideSet) =>
        url_result = Returned(config_server.url)

\* the literal came back although the spec's URL has a token whose variable
\* has no default
C19_Witness ==
    /\ url_pc = "done"
    /\ LiteralOverrideSet
    /\ Unresolvable # {}
    /\ TokensAt(server_spec.url, 1) # {}
    /\ url_result = Returned(<<"L">>)

----------------------------------------------------------------------------
(* picofun/lambda_generator.py: _get_name                                  *)

\* bounds of the naming inputs: the path length, the number of repeated
\* calls and the namespace lengths
MaxNamePathLen == 4
MaxNameCalls == 2
MinNamespaceLen == 55
MaxNamespaceLen == 60

\* the longest identifier namespace + "_" + name may be
MaxIdentifierLength == 64
LAMBDA_SUFFIX_LENGTH == 4

NamePathChars == {"/", "{", "}", ".", "a"}

\* a short namespace and a path as specifications have them
ShortNamespace == <<"n", "s">>
UsersIdPath == <<"/", "u", "s", "e", "r", "s", "/", "{", "i", "d", "}">>

\* a namespace of n characters
NamespaceOfLen(n) == [i \in 1..n |-> "n"]

\* self.max_length
max_length(ns) == MaxIdentifierLength - Len(ns \o <<"_">>)

\* the underscore before the suffix is not counted
Mut_prefix_length(ns) == max_length(ns) - LAMBDA_SUFFIX_LENGTH

\* self.prefix_length
prefix_length(ns) == max_length(ns) - LAMBDA_SUFFIX_LENGTH - 1

\* str.strip("_")
RECURSIVE LStrip(_)
LStrip(str) ==
    IF str # <<>> /\ Head(str) = "_" THEN LStrip(Tail(str)) ELSE str

RECURSIVE RStrip(_)
RStrip(str) ==
    IF str # <<>> /\ str[Len(str)] = "_"
    THEN RStrip(SubSeq(str, 1, Len(str) - 1)) ELSE str

Strip(str) == RStrip(LStrip(str))

HexDigits ==
    <<"0", "1", "2", "3", "4", "5", "6", "7", "8", "9", "a", "b", "c", "d", "e", "f">>

\* a stand-in for hashlib.sha512(name.encode()): a number computed from
\* every character of the name and its position
RECURSIVE Digest(_, _)
Digest(str, h) ==
    IF str = <<>> THEN h
    ELSE Digest(Tail(str), (h * 31 + Ord(Head(str))) % 65536)

\* .hexdigest()[:LAMBDA_SUFFIX_LENGTH]
HexDigestPrefix(str) ==
    LET h == Digest(str, 7)
    IN  [i \in 1..LAMBDA_SUFFIX_LENGTH |->
            HexDigits[((h \div (16 ^ (LAMBDA_SUFFIX_LENGTH - i))) % 16) + 1]]

\* the underscores are stripped before "/" and "." are replaced
Mut_UntruncatedName(method, path) ==
    LET clean_path == str_replace(str_replace(path, <<"{">>, <<>>), <<"}">>, <<>>)
    IN  method \o <<"_">>
        \o str_replace(str_replace(Strip(clean_path), <<"/">>, <<"_">>),
                       <<".">>, <<"_">>)

\* the name before any truncation
UntruncatedName(method, path) ==
    LET clean_path == str_replace(str_replace(path, <<"{">>, <<>>), <<"}">>, <<>>)
    IN  method \o <<"_">>
        \o Strip(str_replace(str_replace(clean_path, <<"/">>, <<"_">>),
                             <<".">>, <<"_">>))

_get_name(ns, method, path) ==
    LET lambda_name == UntruncatedName(method, path)
    IN  IF Len(lambda_name) > max_length(ns)
        THEN SlicePrefix(lambda_name, prefix_length(ns)) \o <<"_">>
             \o HexDigestPrefix(lambda_name)
        ELSE lambda_name

NameIdle ==
    /\ namespace = <<>>
    /\ name_args = None
    /\ name_pc = "idle"
    /\ name_results = <<>>

NameInit ==
    /\ namespace \in {NamespaceOfLen(n) : n \in MinNamespaceLen..MaxNamespaceLen}
                     \cup {ShortNamespace}
    /\ name_args \in [method : {get, post},
                      path : SeqsUpTo(NamePathChars, MaxNamePathLen)
                             \cup {UsersIdPath}]
    /\ name_pc = "ready"
    /\ name_results = <<>>

\* a call self._get_name(method, path)
GetName ==
    /\ name_pc = "ready"
    /\ Len(name_results) < MaxNameCalls
    /\ name_results' =
           Append(name_results,
                  _get_name(namespace, name_args.method, name_args.path))
    /\ UNCHANGED <<namespace, name_args, name_pc>>

----------------------------------------------------------------------------
(* Claims about _get_name, checked under SpecName                         *)

\* 64 - len(namespace) - 1
ClaimBudget == 64 - Len(namespace) - 1

ClaimFullName == UntruncatedName(name_args.method, name_args.path)

C8_Bounded(name) ==
    /\ Len(name) <= ClaimBudget
    /\ Len(ClaimFullName) > ClaimBudget =>
           /\ Len(name) = ClaimBudget
           /\ SubSeq(name, Len(name) - 4, Len(name))
                  = <<"_">> \o HexDigestPrefix(ClaimFullName)

C8_Stable == \A i, j \in 1..Len(name_results) : name_results[i] = name_results[j]

\* C8 as stated: for every namespace, method and path the name is at most
\* 64 - len(namespace) - 1 long; a longer untruncated name is cut to exactly
\* that length and ends with "_" and the 4 digest characters of the full
\* untruncated name; repeated calls return the same name.
C8_LengthBudget ==
    /\ \A i \in 1..Len(name_results) : C8_Bounded(name_results[i])
    /\ C8_Stable

\* C8 amended: the same for every namespace of at most 58 characters, which
\* leaves room for the "_" and the 4 digest characters.
C8_LengthBudgetShortNamespace ==
    Len(namespace) <= 58 =>
        /\ \A i \in 1..Len(name_results) : C8_Bounded(name_results[i])
        /\ C8_Stable

\* two calls returned a name cut to the budget that keeps part of the
\* untruncated name
C8_Witness ==
    /\ Len(name_results) = 2
    /\ Len(namespace) <= 58
    /\ Len(ClaimFullName) > ClaimBudget
    /\ Len(name_results[2]) = ClaimBudget
    /\ ClaimBudget > 5
    /\ SubSeq(name_results[2], 1, 2) = SubSeq(get, 1, 2)

\* the path without its braces, "/" and "." turned into "_", character by
\* character
ClaimFlatPath(path) ==
    LET kept == SelectSeq(path, LAMBDA c : c \notin {"{", "}"})
    IN  [i \in 1..Len(kept) |-> IF kept[i] \in {"/", "."} THEN "_" ELSE kept[i]]

\* a string without its leading and trailing underscores: what lies between
\* its first and its last character that is no underscore
ClaimWithoutOuterUnderscores(str) ==
    LET solid == {i \in 1..Len(str) : str[i] # "_"}
    IN  IF solid = {} THEN <<>>
        ELSE SubSeq(str, CHOOSE i \in solid : \A k \in solid : i <= k,
                         CHOOSE i \in solid : \A k \in solid : i >= k)

ClaimDerivedName ==
    name_args.method \o <<"_">>
    \o ClaimWithoutOuterUnderscores(ClaimFlatPath(name_args.path))

\* C21: when the derived name fits the length budget, _get_name returns the
\* method, "_" and the path with every brace removed, every "/" and "."
\* replaced by "_" and the leading and trailing underscores stripped:
\* ("get", "/users/{id}") gives "get_users_id" and ("get", "/") gives "get_".
C21_DerivedName ==
    \A i \in 1..Len(name_results) :
        Len(ClaimDerivedName) <= ClaimBudget =>
            /\ name_results[i] = ClaimDerivedName
            /\ (name_args.method = get /\ name_args.path = UsersIdPath) =>
                   name_results[i] = <<"g", "e", "t", "_", "u", "s", "e", "r", "s", "_", "i", "d">>
            /\ (name_args.method = get /\ name_args.path = <<"/">>) =>
                   name_results[i] = <<"g", "e", "t", "_">>

\* the name of get /users/{id} was derived under a namespace that leaves
\* room for it
C21_Witness ==
    /\ Len(name_results) >= 1
    /\ name_args.path = UsersIdPath
    /\ Len(ClaimDerivedName) <= ClaimBudget
    /\ name_results[1] = <<"g", "e", "t", "_", "u", "s", "e", "r", "s", "_", "i", "d">>

----------------------------------------------------------------------------
(* picofun/lambda_generator.py: generate                                   *)

\* the most paths a specification has
MaxSpecPaths == 2

GenPaths == {<<"/", "u">>, <<"/", "u", "/", "u">>, <<"/", "u", ".", "u">>}

\* path item objects: the keys are HTTP methods or other keys (trace)
PlainDetails == [responses |-> "200"]
TaggedDetails == [responses |-> "200", tags |-> <<"t1">>]
PathItems ==
    { <<>>,
      <<[method |-> get, details |-> PlainDetails]>>,
      <<[method |-> get, details |-> TaggedDetails]>>,
      <<[method |-> post, details |-> PlainDetails],
        [method |-> get, details |-> PlainDetails]>>,
      <<[method |-> get, details |-> PlainDetails],
        [method |-> post, details |-> TaggedDetails]>>,
      <<[method |-> trace, details |-> PlainDetails],
        [method |-> get, details |-> TaggedDetails]>> }

\* api_data["paths"]: distinct paths in any order, each with a path item
ApiPaths ==
    UNION { [1..Len(ps) -> [path : GenPaths, items : PathItems]] :
            ps \in {q \in DistinctSeqs(GenPaths) : Len(q) <= MaxSpecPaths} }

GenApiPaths ==
    {a \in ApiPaths : \A i, k \in 1..Len(a) : i # k => a[i].path # a[k].path}

GenFilterFiles ==
    { NoFile,
      [kind |-> "yaml", data |-> [paths |-> <<[path |-> <<"/", "u">>]>>]],
      [kind |-> "yaml",
       data |-> [paths |-> <<[path |-> <<"/", "*", "*">>, methods |-> <<GET>>]>>]],
      [kind |-> "yaml", data |-> [tags |-> <<"t1">>]] }

GenServerSpecs ==
    { [url |-> <<"h">>],
      [url |-> <<"h", "{", "a", "}">>,
       variables |-> <<[name |-> <<"a">>, default |-> <<"x">>]>>],
      [url |-> <<"{", "a", "}">>, variables |-> <<[name |-> <<"a">>]>>] }

\* Config.server in a run of generate: None, or an override of variable a
GenServerConfigs ==
    {NoServerConfig,
     [kind |-> "ServerConfig",
      variables |-> <<[name |-> <<"a">>, value |-> <<"y">>]>>]}

GenNamespaces == {NamespaceOfLen(3), NamespaceOfLen(57)}

\* the methods generate makes functions for
HttpMethods ==
    { get, <<"p", "u", "t">>, post, <<"d", "e", "l", "e", "t", "e">>,
      <<"p", "a", "t", "c", "h">>, <<"h", "e", "a", "d">> }

\* Python's a < b on strs
RECURSIVE StrLess(_, _)
StrLess(a, b) ==
    IF b = <<>> THEN FALSE
    ELSE IF a = <<>> THEN TRUE
    ELSE IF Head(a) = Head(b) THEN StrLess(Tail(a), Tail(b))
    ELSE Ord(Head(a)) < Ord(Head(b))

\* insert x into the sorted list l after the elements not greater than it
RECURSIVE InsertSorted(_, _)
InsertSorted(l, x) ==
    IF l = <<>> THEN <<x>>
    ELSE IF StrLess(x, Head(l)) THEN <<x>> \o l
    ELSE <<Head(l)>> \o InsertSorted(Tail(l), x)

\* a sort that leaves the list as it is
MutListSort(l) == l

\* list.sort()
RECURSIVE ListSort(_)
ListSort(l) ==
    IF l = <<>> THEN <<>>
    ELSE InsertSorted(ListSort(SubSeq(l, 1, Len(l) - 1)), l[Len(l)])

\* the position of the first item at or after item j of path i, in the
\* order the two loops visit them; path Len(paths) + 1 when there is none
RECURSIVE NextItem(_, _, _)
NextItem(paths, i, j) ==
    IF i > Len(paths) THEN <<i, 1>>
    ELSE IF j <= Len(paths[i].items) THEN <<i, j>>
    ELSE NextItem(paths, i + 1, 1)

\* open(script_path, "w") and write: a file of that name is replaced
WriteFile(fs, name, code) ==
    {f \in fs : f.name # name} \cup {[name |-> name, code |-> code]}

\* the URL is put together again for each function
Mut_render(url, method, path, details) ==
    [base_url |-> url \o path, method |-> method, path |-> path,
     details |-> details]

\* what render's output depends on
render(url, method, path, details) ==
    [base_url |-> url, method |-> method, path |-> path, details |-> details]

GenIdle ==
    /\ api_paths = <<>>
    /\ gen_pc = "idle"
    /\ gen_i = 1
    /\ gen_j = 1
    /\ gen_base_url = <<>>
    /\ lambdas = <<>>
    /\ files = {}
    /\ gen_result = None

\* the filter and the generator as cli.main constructs them, and the
\* specification generate is called with
GenInit ==
    /\ filter_file \in GenFilterFiles
    /\ _paths = <<>>
    /\ _operation_ids = <<>>
    /\ _tags = <<>>
    /\ _has_filters = FALSE
    /\ filt_pc = "new"
    /\ filt_error = None
    /\ incl_args = None
    /\ incl_result = None
    /\ config_server \in GenServerConfigs
    /\ server_spec \in GenServerSpecs
    /\ url_pc = "idle"
    /\ url_result = None
    /\ namespace \in GenNamespaces
    /\ name_args = None
    /\ name_pc = "idle"
    /\ name_results = <<>>
    /\ api_paths \in GenApiPaths
    /\ gen_pc = "start"
    /\ gen_i = 1
    /\ gen_j = 1
    /\ gen_base_url = <<>>
    /\ lambdas = <<>>
    /\ files = {}
    /\ gen_result = None

\* generate up to the loops: the server URL is resolved
GenerateStart ==
    /\ filt_pc = "ready"
    /\ gen_pc = "start"
    /\ LET r == _resolve_server_url(config_server, server_spec)
           first == NextItem(api_paths, 1, 1)
       IN  IF r.kind = "return"
           THEN /\ gen_base_url' = r.value
                /\ gen_pc' = "loop"
                /\ gen_i' = first[1]
                /\ gen_j' = first[2]
                /\ UNCHANGED gen_result
           ELSE /\ gen_result' = r
                /\ gen_pc' = "failed"
                /\ UNCHANGED <<gen_base_url, gen_i, gen_j>>
    /\ UNCHANGED <<api_paths, lambdas, files>>

\* one pass of the inner loop's body
GenerateOperation ==
    /\ gen_pc = "loop"
    /\ gen_i <= Len(api_paths)
    /\ LET path == api_paths[gen_i].path
           method == api_paths[gen_i].items[gen_j].method
           details == api_paths[gen_i].items[gen_j].details
           next == NextItem(api_paths, gen_i, gen_j + 1)
           lambda_name == _get_name(namespace, method, path)
           code == render(gen_base_url, method, path, details)
       IN  /\ IF method \notin HttpMethods
              THEN UNCHANGED <<lambdas, files>>
              ELSE IF ~is_included(_has_filters, _paths, _operation_ids, _tags,
                                   path, method, details)
              THEN UNCHANGED <<lambdas, files>>
              ELSE /\ files' = WriteFile(files, lambda_name \o <<".", "p", "y">>, code)
                   /\ lambdas' = Append(lambdas, lambda_name)
           /\ gen_i' = next[1]
           /\ gen_j' = next[2]
    /\ UNCHANGED <<api_paths, gen_pc, gen_base_url, gen_result>>

\* after the loops: the list is sorted and returned
GenerateFinish ==
    /\ gen_pc = "loop"
    /\ gen_i > Len(api_paths)
    /\ lambdas' = ListSort(lambdas)
    /\ gen_result' = Returned(ListSort(lambdas))
    /\ gen_pc' = "done"
    /\ UNCHANGED <<api_paths, gen_i, gen_j, gen_base_url, files>>

----------------------------------------------------------------------------
(* Claims about generate, checked under SpecGen                           *)

\* the (path, item) positions of the specification
ClaimPositions ==
    UNION { {<<i, j>> : j \in 1..Len(api_paths[i].items)} : i \in 1..Len(api_paths) }

ClaimMethods ==
    { <<"g", "e", "t">>, <<"p", "u", "t">>, <<"p", "o", "s", "t">>,
      <<"d", "e", "l", "e", "t", "e">>, <<"p", "a", "t", "c", "h">>,
      <<"h", "e", "a", "d">> }

ClaimItem(p) == api_paths[p[1]].items[p[2]]

\* the operations generate is to make a function for
ClaimOperations ==
    {p \in ClaimPositions :
        /\ ClaimItem(p).method \in ClaimMethods
        /\ is_included(_has_filters, _paths, _operation_ids, _tags,
                       api_paths[p[1]].path, ClaimItem(p).method,
                       ClaimItem(p).details)}

ClaimName(p) == _get_name(namespace, ClaimItem(p).method, api_paths[p[1]].path)

\* a is not after b in lexicographic order by code point
ClaimLexLeq(a, b) ==
    \/ a = b
    \/ \E k \in 1..(Len(b)) :
          /\ k <= Len(a) + 1
          /\ SubSeq(a, 1, k - 1) = SubSeq(b, 1, k - 1)
          /\ \/ k = Len(a) + 1
             \/ k <= Len(a) /\ Ord(a[k]) < Ord(b[k])

\* C9 as stated: when generate has returned, the returned list has no
\* duplicates and every function made has a file of its own, the operations
\* of a specification being distinct (method, path) pairs.
C9_DistinctNames ==
    gen_pc = "done" =>
        /\ \A i, k \in 1..Len(lambdas) : i # k => lambdas[i] # lambdas[k]
        /\ Cardinality(files) = Len(lambdas)

\* C10: generate returns the names in ascending lexicographic order, and
\* each name as many times as there are operations with one of the six
\* methods that the filter includes and that derive that name.
C10_SortedIncludedNames ==
    gen_pc = "done" =>
        LET r == gen_result.value
        IN  /\ gen_result.kind = "return"
            /\ \A k \in 1..(Len(r) - 1) : ClaimLexLeq(r[k], r[k + 1])
            /\ \A n \in Range(r) \cup {ClaimName(p) : p \in ClaimOperations} :
                   Cardinality({k \in 1..Len(r) : r[k] = n})
                       = Cardinality({p \in ClaimOperations : ClaimName(p) = n})

\* two paths, the filter allow-lists /u only, and the list returned is
\* that path's name alone
C10_Witness ==
    /\ gen_pc = "done"
    /\ Len(api_paths) = 2
    /\ Has(filter_file, "data")
    /\ Has(filter_file.data, "paths")
    /\ filter_file.data.paths[1].path = <<"/", "u">>
    /\ \A i \in 1..2 : api_paths[i].items # <<>>
    /\ gen_result.value = <<<<"g", "e", "t", "_", "u">>>>

\* two names were returned out of the order the loops made them in
C10_WitnessReordered ==
    /\ gen_pc = "done"
    /\ Len(api_paths) = 2
    /\ Len(gen_result.value) = 2
    /\ gen_result.value[1] # gen_result.value[2]
    /\ Len(api_paths[1].items) = 1
    /\ Len(api_paths[2].items) = 1
    /\ gen_result.value[1]
           = _get_name(namespace, api_paths[2].items[1].method, api_paths[2].path)

----------------------------------------------------------------------------
(* picofun/config.py: Python values, field validators                     *)

\* Python values of the types a config value can have
PyStr(str) == [str |-> str]
PyBool(b) == [bool |-> b]
PyInt(n) == [int |-> n]
PyList(l) == [list |-> l]

\* isinstance(value, type)
IsInstance(value, type) == type \in DOMAIN value

\* bool(value)
Truthy(value) ==
    CASE IsInstance(value, "none") -> FALSE
      [] IsInstance(value, "str")  -> value.str # <<>>
      [] IsInstance(value, "bool") -> value.bool
      [] IsInstance(value, "int")  -> value.int # 0
      [] IsInstance(value, "list") -> value.list # <<>>
      [] OTHER                     -> TRUE

AWS_POWER_TOOLS_LAYER_ARN ==
    <<"a", "r", "n", ":", "a", "w", "s", ":", "l", "a", "m", "b", "d", "a",
      ":", "u", "s", "-", "e", "a", "s", "t", "-", "1", ":", "0", "1", "7",
      "0", "0", "0", "8", "0", "1", "4", "4", "6", ":", "l", "a", "y", "e",
      "r", ":", "A", "W", "S", "L", "a", "m", "b", "d", "a", "P", "o", "w",
      "e", "r", "t", "o", "o", "l", "s", "P", "y", "t", "h", "o", "n", "V",
      "3", "-", "p", "y", "t", "h", "o", "n", "3", "1", "3", "-", "a", "r",
      "m", "6", "4", ":", "2", "7">>

\* the marker validate_layers looks for
PowertoolsMarker ==
    <<"a", "w", "s", "l", "a", "m", "b", "d", "a", "p", "o", "w", "e", "r",
      "t", "o", "o", "l", "s">>

\* sub in s
Contains(s, sub) == \E i \in 1..(Len(s) - Len(sub) + 1) : HasAt(s, sub, i)

\* str.split(",")
RECURSIVE SplitComma(_, _)
SplitComma(str, item) ==
    IF str = <<>> THEN <<item>>
    ELSE IF Head(str) = "," THEN <<item>> \o SplitComma(Tail(str), <<>>)
    ELSE SplitComma(Tail(str), Append(item, Head(str)))

\* str.strip()
RECURSIVE LStripSpace(_)
LStripSpace(str) ==
    IF str # <<>> /\ Head(str) = " " THEN LStripSpace(Tail(str)) ELSE str

RECURSIVE RStripSpace(_)
RStripSpace(str) ==
    IF str # <<>> /\ str[Len(str)] = " "
    THEN RStripSpace(SubSeq(str, 1, Len(str) - 1)) ELSE str

StripSpace(str) == RStripSpace(LStripSpace(str))

\* [item.strip() for item in value.split(",") if item.strip()]
SplitTrim(str) ==
    LET items == SplitComma(str, <<>>)
        trimmed == [i \in 1..Len(items) |-> StripSpace(items[i])]
    IN  SelectSeq(trimmed, LAMBDA item : item # <<>>)

\* what a validator gives back: a value, or the exception it raised
Valid(value) == [kind |-> "ok", value |-> value]
Raised(exception) == [kind |-> exception]

\* the marker is looked for as it is written
Mut_validate_layers(value) ==
    LET layers == IF IsInstance(value, "str") THEN SplitTrim(value.str)
                  ELSE IF IsInstance(value, "list") THEN value.list
                  ELSE <<>>
    IN  IF \A i \in 1..Len(layers) : ~Contains(layers[i], PowertoolsMarker)
        THEN Valid(PyList(<<AWS_POWER_TOOLS_LAYER_ARN>> \o layers))
        ELSE Valid(PyList(layers))

\* validate_layers, then pydantic's check of list[str]
validate_layers(value) ==
    LET layers == IF IsInstance(value, "str") THEN SplitTrim(value.str)
                  ELSE IF IsInstance(value, "list") THEN value.list
                  ELSE <<>>
    IN  IF \A i \in 1..Len(layers) : ~Contains(Lower(layers[i]), PowertoolsMarker)
        THEN Valid(PyList(<<AWS_POWER_TOOLS_LAYER_ARN>> \o layers))
        ELSE Valid(PyList(layers))

SubnetPrefix == <<"s", "u", "b", "n", "e", "t", "-">>

\* validate_subnets, then pydantic's check of list[str]
validate_subnets(value) ==
    LET subnets == IF IsInstance(value, "str") THEN SplitTrim(value.str)
                   ELSE IF IsInstance(value, "list") THEN value.list
                   ELSE <<>>
    IN  IF \E i \in 1..Len(subnets) : SlicePrefix(subnets[i], 7) # SubnetPrefix
        THEN Raised("ValidationError")
        ELSE Valid(PyList(subnets))

\* validate_auth_ttl, then pydantic's check of int
validate_auth_ttl(value) ==
    IF ~IsInstance(value, "int") \/ value.int <= 0
    THEN Raised("ValidationError")
    ELSE Valid(value)

\* the paths that exist on disk
ExistingPaths == {<<"/", "b">>}

\* validate_bundle on an absolute path, then pydantic's check of str;
\* os.path.isabs raises TypeError for a value that is not a path
validate_bundle(value) ==
    IF ~IsInstance(value, "str") THEN Raised("TypeError")
    ELSE IF value.str \notin ExistingPaths THEN Raised("ValidationError")
    ELSE Valid(value)

\* pydantic's check of a str field without a validator
ValidateStr(value) ==
    IF IsInstance(value, "str") THEN Valid(value) ELSE Raised("ValidationError")

\* pydantic's check of a bool field
ValidateBool(value) ==
    IF IsInstance(value, "bool") THEN Valid(value) ELSE Raised("ValidationError")

\* validate_output_dir, which creates the directory when it is missing, then
\* pydantic's check of DirectoryPath; os.path.isabs raises TypeError for a
\* value that is not a path
validate_output_dir(value) ==
    IF IsInstance(value, "str") THEN Valid(value) ELSE Raised("TypeError")

----------------------------------------------------------------------------
(* picofun/config.py: ServerConfig, Config, ConfigLoader                  *)

\* a TOML table or a dict, its keys the fields of the record
PyDict(d) == [dict |-> d]

\* a dict with no key
EmptyDict == [k \in {} |-> PyNone]

\* an ordered dict as a list of entries: kwargs, the file's top level
Entry(key, value) == [key |-> key, value |-> value]
HasKey(entries, key) == \E i \in 1..Len(entries) : entries[i].key = key
DictGet(entries, key) ==
    IF HasKey(entries, key)
    THEN entries[CHOOSE i \in 1..Len(entries) : entries[i].key = key].value
    ELSE PyNone

\* d[key] = value
DictSet(entries, key, value) ==
    IF HasKey(entries, key)
    THEN [i \in 1..Len(entries) |->
             IF entries[i].key = key THEN Entry(key, value) ELSE entries[i]]
    ELSE Append(entries, Entry(key, value))

\* {k: v for k, v in d.items() if k != key}, also d.pop(key)
DictWithout(entries, key) == SelectSeq(entries, LAMBDA e : e.key # key)

\* ServerConfig(**table): extra="forbid", validate_mutual_exclusivity
ServerConfigFrom(table) ==
    IF \E k \in DOMAIN table : k \notin {"url", "variables"}
    THEN Raised("ValidationError")
    ELSE IF Has(table, "url") /\ Has(table, "variables")
    THEN Raised("ValidationError")
    ELSE Valid([k \in DOMAIN table \cup {"kind"} |->
                   IF k = "kind" THEN "ServerConfig" ELSE table[k]])

\* pydantic's validation of the server field: None, or a table
ValidateServer(value) ==
    IF IsInstance(value, "none") THEN Valid(NoServerConfig)
    ELSE IF IsInstance(value, "dict") THEN ServerConfigFrom(value.dict)
    ELSE Raised("ValidationError")

\* the fields of Config that are modelled
ConfigFields ==
    {"auth_enabled", "auth_ttl_minutes", "bundle", "layers", "output_dir",
     "preprocessor", "server", "subnets", "vpc_id"}

\* Config(): the defaults
DefaultConfig ==
    [auth_enabled     |-> PyBool(TRUE),
     auth_ttl_minutes |-> PyInt(5),
     bundle           |-> PyNone,
     layers           |-> PyList(<<AWS_POWER_TOOLS_LAYER_ARN>>),
     output_dir       |-> PyStr(<<"o">>),
     preprocessor     |-> PyStr(<<>>),
     server           |-> NoServerConfig,
     subnets          |-> PyList(<<>>),
     vpc_id           |-> PyNone]

\* the field validator of a field and pydantic's check of its type
ValidateField(key, value) ==
    CASE key = "auth_enabled"     -> ValidateBool(value)
      [] key = "auth_ttl_minutes" -> validate_auth_ttl(value)
      [] key = "bundle"           -> validate_bundle(value)
      [] key = "layers"           -> validate_layers(value)
      [] key = "output_dir"       -> validate_output_dir(value)
      [] key = "preprocessor"     -> ValidateStr(value)
      [] key = "server"           -> ValidateServer(value)
      [] key = "subnets"          -> validate_subnets(value)
      [] key = "vpc_id"           -> ValidateStr(value)

\* the rule is not applied to the VPC id
Mut_validate_subnets_vpc(cfg) == ~(Truthy(cfg.subnets) /\ ~Truthy(cfg.vpc_id))

\* validate_subnets_vpc passes
validate_subnets_vpc(cfg) ==
    ~(\/ Truthy(cfg.subnets) /\ ~Truthy(cfg.vpc_id)
      \/ Truthy(cfg.vpc_id) /\ ~Truthy(cfg.subnets))

\* the validator is missing
Mut_validate_auth_preprocessor(cfg) == TRUE

\* validate_auth_preprocessor passes
validate_auth_preprocessor(cfg) ==
    ~(cfg.auth_enabled.bool /\ Truthy(cfg.preprocessor))

\* the mode="after" model validators pass
ModelValidators(cfg) == validate_subnets_vpc(cfg) /\ validate_auth_preprocessor(cfg)

\* the outcome of a call on the Config: its fields afterwards and what it
\* raised
Outcome(cfg, error) == [config |-> cfg, error |-> error]

\* setattr(config, key, value) under validate_assignment and
\* extra="forbid": a key that is no field and a value its field rejects are
\* refused before anything is stored; the validated value is stored before
\* the mode="after" model validators run, and stays when they raise
SetAttr(cfg, key, value) ==
    IF key \notin ConfigFields THEN Outcome(cfg, Raised("ValidationError"))
    ELSE LET r == ValidateField(key, value)
         IN  IF r.kind # "ok" THEN Outcome(cfg, r)
             ELSE LET stored == [cfg EXCEPT ![key] = r.value]
                  IN  IF ModelValidators(stored)
                      THEN Outcome(stored, NoError)
                      ELSE Outcome(stored, Raised("ValidationError"))

\* the loop assigns falsy values too
RECURSIVE Mut_MergeFrom(_, _, _)
Mut_MergeFrom(cfg, kwargs, i) ==
    IF i > Len(kwargs) THEN Outcome(cfg, NoError)
    ELSE LET r == SetAttr(cfg, kwargs[i].key, kwargs[i].value)
         IN  IF r.error = NoError THEN Mut_MergeFrom(r.config, kwargs, i + 1)
             ELSE r

\* the loop of merge from entry i on
RECURSIVE MergeFrom(_, _, _)
MergeFrom(cfg, kwargs, i) ==
    IF i > Len(kwargs) THEN Outcome(cfg, NoError)
    ELSE IF ~Truthy(kwargs[i].value) THEN MergeFrom(cfg, kwargs, i + 1)
    ELSE LET r == SetAttr(cfg, kwargs[i].key, kwargs[i].value)
         IN  IF r.error = NoError THEN MergeFrom(r.config, kwargs, i + 1)
             ELSE r

\* ServerConfig(url=server_url) assigned to self.server
AssignServerUrl(cfg, server_url) ==
    IF ~IsInstance(server_url, "str") THEN Outcome(cfg, Raised("ValidationError"))
    ELSE LET stored == [cfg EXCEPT !.server =
                            [kind |-> "ServerConfig", url |-> server_url.str]]
         IN  IF ModelValidators(stored)
             THEN Outcome(stored, NoError)
             ELSE Outcome(stored, Raised("ValidationError"))

\* server_url goes through the loop like every other key
Mut_merge(cfg, kwargs) == MergeFrom(cfg, kwargs, 1)

\* Config.merge(**kwargs)
merge(cfg, kwargs) ==
    LET server_url == DictGet(kwargs, "server_url")
    IN  IF Truthy(server_url)
        THEN LET r == AssignServerUrl(cfg, server_url)
             IN  IF r.error = NoError
                 THEN MergeFrom(r.config, DictWithout(kwargs, "server_url"), 1)
                 ELSE r
        ELSE MergeFrom(cfg, kwargs, 1)

\* Config(**contents): a key that is no field and a rejected value make a
\* ValidationError; an exception that is no ValueError leaves as it is;
\* the fields not given keep their defaults; the model validators run last
Construct(contents) ==
    LET results == [i \in 1..Len(contents) |->
                       IF contents[i].key \in ConfigFields
                       THEN ValidateField(contents[i].key, contents[i].value)
                       ELSE Raised("ValidationError")]
        cfg == [k \in ConfigFields |->
                   IF HasKey(contents, k)
                   THEN results[CHOOSE i \in 1..Len(contents) : contents[i].key = k].value
                   ELSE DefaultConfig[k]]
    IN  IF \E i \in 1..Len(results) : results[i].kind = "TypeError"
        THEN Outcome(DefaultConfig, Raised("TypeError"))
        ELSE IF \E i \in 1..Len(results) : results[i].kind # "ok"
        THEN Outcome(DefaultConfig, Raised("ValidationError"))
        ELSE IF ~ModelValidators(cfg)
        THEN Outcome(DefaultConfig, Raised("ValidationError"))
        ELSE Outcome(cfg, NoError)

\* the [auth] table flattened into the top level
FlattenAuth(contents) ==
    IF ~HasKey(contents, "auth") THEN contents
    ELSE LET auth_section == DictGet(contents, "auth").dict
             popped == DictWithout(contents, "auth")
             enabled == IF Has(auth_section, "enabled")
                        THEN DictSet(popped, "auth_enabled", auth_section.enabled)
                        ELSE popped
         IN  IF Has(auth_section, "ttl_minutes")
             THEN DictSet(enabled, "auth_ttl_minutes", auth_section.ttl_minutes)
             ELSE enabled

\* ConfigLoader.load_from_file
load_from_file(file) ==
    IF file.kind = "missing"
    THEN Outcome(DefaultConfig, Raised("ConfigFileNotFoundError"))
    ELSE IF file.kind = "unparseable"
    THEN Outcome(DefaultConfig, Raised("InvalidConfigError"))
    ELSE LET r == Construct(FlattenAuth(file.contents))
         IN  IF r.error = Raised("ValidationError")
             THEN Outcome(DefaultConfig, Raised("UnknownConfigValueError"))
             ELSE r

----------------------------------------------------------------------------
(* picofun/config.py: the configuration of a run                         *)

\* the most overrides a merge call is given
MaxOverrides == 2

Subnet1 == <<"s", "u", "b", "n", "e", "t", "-", "1">>
CustomLayer == <<"l">>
cdk == <<"c", "d", "k">>

\* for each key of the file's top level, the values it is given
FileValues ==
    [auth         |-> {PyDict([enabled |-> PyBool(FALSE)]),
                       PyDict([enabld |-> PyBool(FALSE)])},
     preprocessor |-> {PyStr(<<"p">>)},
     subnets      |-> {PyList(<<Subnet1>>)},
     vpc_id       |-> {PyStr(<<"v">>)},
     server       |-> {PyDict([variables |-> <<[name |-> <<"a">>, value |-> <<"y">>]>>]),
                       PyDict([url |-> <<"L">>]),
                       PyDict([host |-> <<"L">>])},
     invalid      |-> {PyStr(<<"x">>)}]

FileKeys == <<"auth", "preprocessor", "subnets", "vpc_id", "server", "invalid">>

\* the contents with keys FileKeys[i..], each key absent or with a value
RECURSIVE FileContentsFrom(_)
FileContentsFrom(i) ==
    IF i > Len(FileKeys) THEN {<<>>}
    ELSE LET rest == FileContentsFrom(i + 1)
         IN  rest \cup {<<Entry(FileKeys[i], v)>> \o r :
                            v \in FileValues[FileKeys[i]], r \in rest}

\* what the config file can be: no file, not TOML, or a document
ConfigFiles ==
    {[kind |-> "missing"], [kind |-> "unparseable"]}
    \cup {[kind |-> "toml", contents |-> c] : c \in FileContentsFrom(1)}

\* the overrides a call of merge can carry
OverridePool ==
    { Entry("layers", PyStr(<<>>)), Entry("layers", PyStr(CustomLayer)),
      Entry("bundle", PyNone),
      Entry("server_url", PyNone), Entry("server_url", PyStr(<<"L">>)),
      Entry("iac", PyStr(cdk)),
      Entry("subnets", PyList(<<>>)), Entry("subnets", PyList(<<Subnet1>>)),
      Entry("vpc_id", PyStr(<<"v">>)),
      Entry("auth_enabled", PyBool(FALSE)),
      Entry("auth_ttl_minutes", PyInt(0)),
      Entry("preprocessor", PyStr(<<>>)), Entry("preprocessor", PyStr(<<"p">>)),
      Entry("server", PyNone),
      Entry("invalid", PyStr(<<"x">>)), Entry("invalid", PyStr(<<>>)) }

\* kwargs: keys are distinct
OverrideSets ==
    {k \in SeqsUpTo(OverridePool, MaxOverrides) :
        \A i, j \in 1..Len(k) : i # j => k[i].key # k[j].key}

CfgIdle ==
    /\ cfg_file = [kind |-> "missing"]
    /\ config = DefaultConfig
    /\ cfg_pc = "idle"
    /\ cfg_kwargs = <<>>
    /\ cfg_error = NoError

CfgInit ==
    /\ cfg_file \in ConfigFiles
    /\ config = DefaultConfig
    /\ cfg_pc = "start"
    /\ cfg_kwargs = <<>>
    /\ cfg_error = NoError

\* ConfigLoader(config_file).get_config()
LoadConfig ==
    /\ cfg_pc = "start"
    /\ LET r == load_from_file(cfg_file)
       IN  /\ config' = r.config
           /\ cfg_error' = r.error
           /\ cfg_pc' = IF r.error = NoError THEN "loaded" ELSE "failed"
    /\ UNCHANGED <<cfg_file, cfg_kwargs>>

\* config.merge(**kwargs)
Merge ==
    /\ cfg_pc = "loaded"
    /\ \E kwargs \in OverrideSets :
          LET r == merge(config, kwargs)
          IN  /\ config' = r.config
              /\ cfg_error' = r.error
              /\ cfg_kwargs' = kwargs
    /\ cfg_pc' = "merged"
    /\ UNCHANGED cfg_file

----------------------------------------------------------------------------
(* picofun/config.py: ConfigLoader finding and loading the file           *)

picofun_toml == <<"p", "i", "c", "o", "f", "u", "n", ".", "t", "o", "m", "l">>

\* os.getcwd()
Cwd == <<"/", "w">>

\* the directories on disk
Directories == {Cwd, <<"/", "d">>}

\* os.path.isdir
IsDir(path) == path \in Directories

\* os.path.join of a directory and a file name
PathJoin(dir, name) ==
    IF dir # <<>> /\ dir[Len(dir)] = "/" THEN dir \o name
    ELSE dir \o <<"/">> \o name

\* the paths where a config file can be
ConfigPaths ==
    {PathJoin(d, picofun_toml) : d \in Directories} \cup {<<"/", "f">>}

\* what ConfigLoader is constructed with: nothing, a directory, a file in a
\* directory, a path where nothing is
LoaderArgs ==
    {PyNone, PyStr(<<>>)}
    \cup {PyStr(p) : p \in Directories \cup ConfigPaths \cup {<<"/", "n">>}}

\* what a config file holds: a few documents of ConfigFiles
LoaderFiles ==
    {[kind |-> "missing"], [kind |-> "unparseable"],
     [kind |-> "toml", contents |-> <<>>],
     [kind |-> "toml", contents |-> <<Entry("preprocessor", PyStr(<<"p">>))>>]}

\* the file at a path: os.path.isfile and open
FileAt(files_on_disk, path) ==
    IF path \in DOMAIN files_on_disk THEN files_on_disk[path]
    ELSE [kind |-> "missing"]

\* ConfigLoader._get_config_file
_get_config_file(config_file) ==
    LET start == IF IsInstance(config_file, "none") \/ config_file.str = <<>>
                 THEN Cwd ELSE config_file.str
    IN  IF IsDir(start) THEN PathJoin(start, picofun_toml) ELSE start

LdrIdle ==
    /\ file_path = PyNone
    /\ disk = <<>>
    /\ _config_file = <<>>
    /\ _config = DefaultConfig
    /\ ldr_pc = "idle"
    /\ ldr_error = NoError

LdrInit ==
    /\ file_path \in LoaderArgs
    /\ disk \in [ConfigPaths -> LoaderFiles]
    /\ _config_file = <<>>
    /\ _config = DefaultConfig
    /\ ldr_pc = "new"
    /\ ldr_error = NoError

\* ConfigLoader.__init__: self._config_file = self._get_config_file(file_path)
GetConfigFile ==
    /\ ldr_pc = "new"
    /\ _config_file' = _get_config_file(file_path)
    /\ ldr_pc' = "located"
    /\ UNCHANGED <<file_path, disk, _config, ldr_error>>

\* ConfigLoader.__init__: self._config = self.load_from_file(self._config_file)
LoadFromFile ==
    /\ ldr_pc = "located"
    /\ LET r == load_from_file(FileAt(disk, _config_file))
       IN  /\ _config' = r.config
           /\ ldr_error' = r.error
    /\ ldr_pc' = "done"
    /\ UNCHANGED <<file_path, disk, _config_file>>

\* what the resolution of the server URL gives in this run
ClaimResolved == _resolve_server_url(config_server, server_spec)

\* C30: generate resolves the base URL once, before the first function is
\* rendered; every function file of a run is rendered with that base URL;
\* when the resolution raises UnknownServerVariableError or
\* MissingServerVariableError no function file is written and no list of
\* names is returned
C30_BaseUrlOnce ==
    [][/\ gen_pc # "start" => gen_base_url' = gen_base_url
       /\ files' # files =>
              /\ gen_pc = "loop"
              /\ ClaimResolved = Returned(gen_base_url)
       /\ \A f \in files' : f.code.base_url = gen_base_url'
       /\ ClaimResolved.kind # "return" =>
              /\ ClaimResolved.kind \in {"UnknownServerVariableError",
                                         "MissingServerVariableError"}
              /\ files' = {}
              /\ lambdas' = <<>>
              /\ gen_pc' = "failed"
              /\ gen_result' = ClaimResolved]_genVars

\* two functions were written, both with the URL the config's variable gave
C30_Witness ==
    /\ gen_pc = "done"
    /\ config_server # NoServerConfig
    /\ Cardinality(files) = 2
    /\ \A f \in files : f.code.base_url = <<"h", "y">>

\* the resolution raised: nothing was written and nothing returned
C30_WitnessRaised ==
    /\ gen_pc = "failed"
    /\ gen_result.kind = "UnknownServerVariableError"
    /\ files = {}
    /\ api_paths # <<>>

----------------------------------------------------------------------------
(* Claims about ConfigLoader, checked under SpecLdr                        *)

\* ConfigLoader was constructed without a path
ClaimNoArgument == IsInstance(file_path, "none") \/ file_path.str = <<>>

\* C24: for a directory the config file is picofun.toml inside it; another
\* explicit path is used as given and ConfigFileNotFoundError is raised when
\* nothing is there; with no argument the file is picofun.toml in the current
\* directory, and when it is missing there is no error and the defaults apply
C24_Discovery ==
    ldr_pc = "done" =>
        IF ClaimNoArgument
        THEN /\ _config_file = Cwd \o <<"/">> \o picofun_toml
             /\ FileAt(disk, _config_file).kind = "missing" =>
                    (ldr_error = NoError /\ _config = DefaultConfig)
        ELSE IF file_path.str \in Directories
        THEN _config_file = file_path.str \o <<"/">> \o picofun_toml
        ELSE /\ _config_file = file_path.str
             /\ FileAt(disk, _config_file).kind = "missing" =>
                    ldr_error = Raised("ConfigFileNotFoundError")

----------------------------------------------------------------------------
(* picofun/config.py: calls of validate_layers and validate_subnets        *)

\* the most pieces a string is put together from, the longest list
MaxValPieces == 2
MaxValList == 2

MixedCaseMarker ==
    <<"A", "W", "S", "L", "a", "m", "b", "d", "a", "P", "o", "w", "e", "r",
      "t", "o", "o", "l", "s">>

\* the values validate_layers is called with: strings put together from
\* entries, commas and blanks; lists; None
LayerPieces ==
    {<<"l">>, <<",">>, <<" ">>, <<"l", ",", " ">>, MixedCaseMarker,
     PowertoolsMarker}
LayerEntries ==
    {<<"l">>, <<" ", "l">>, <<>>, <<"x">> \o MixedCaseMarker,
     AWS_POWER_TOOLS_LAYER_ARN}
LayerInputs ==
    {PyStr(Concat(ps)) : ps \in SeqsUpTo(LayerPieces, MaxValPieces)}
    \cup {PyList(l) : l \in SeqsUpTo(LayerEntries, MaxValList)}
    \cup {PyNone}

\* the values validate_subnets is called with
SubnetPieces ==
    {SubnetPrefix, <<"1">>, <<"a">>, <<"z">>, <<",">>, <<" ">>,
     Subnet1 \o <<",", " ">>}
SubnetEntries ==
    {Subnet1, SubnetPrefix \o <<"z">>, SubnetPrefix, <<"z">>, <<" ">> \o Subnet1}
SubnetInputs ==
    {PyStr(Concat(ps)) : ps \in SeqsUpTo(SubnetPieces, MaxValPieces)}
    \cup {PyList(l) : l \in SeqsUpTo(SubnetEntries, MaxValList)}

\* Config.validate_layers(value), Config.validate_subnets(value)
CallValidator(field, value) ==
    IF field = "layers" THEN validate_layers(value) ELSE validate_subnets(value)

ValIdle ==
    /\ val_field = "layers"
    /\ val_input = PyNone
    /\ val_pc = "idle"
    /\ val_result = Valid(PyNone)
    /\ val_again = Valid(PyNone)

ValInit ==
    /\ \/ val_field = "layers" /\ val_input \in LayerInputs
       \/ val_field = "subnets" /\ val_input \in SubnetInputs
    /\ val_pc = "call"
    /\ val_result = Valid(PyNone)
    /\ val_again = Valid(PyNone)

\* the validator called with the value
ValidateOnce ==
    /\ val_pc = "call"
    /\ val_result' = CallValidator(val_field, val_input)
    /\ val_pc' = "once"
    /\ UNCHANGED <<val_field, val_input, val_again>>

\* the validator called with what it returned
ValidateAgain ==
    /\ val_pc = "once"
    /\ val_result.kind = "ok"
    /\ val_again' = CallValidator(val_field, val_result.value)
    /\ val_pc' = "twice"
    /\ UNCHANGED <<val_field, val_input, val_result>>

----------------------------------------------------------------------------
(* Claims about validate_layers and validate_subnets, checked under SpecVal *)

\* a layer entry contains 'awslambdapowertools', whatever the case of its
\* letters
ClaimHasMarker(entry) ==
    \E i \in 1..Len(entry) :
        /\ i + Len(PowertoolsMarker) - 1 <= Len(entry)
        /\ \A k \in 1..Len(PowertoolsMarker) :
               LowerChar(entry[i + k - 1]) = PowertoolsMarker[k]

\* an entry without its leading and trailing blanks
ClaimTrimmed(entry) ==
    LET inked == {i \in 1..Len(entry) : entry[i] # " "}
    IN  IF inked = {} THEN <<>>
        ELSE SubSeq(entry, CHOOSE i \in inked : \A j \in inked : i <= j,
                           CHOOSE i \in inked : \A j \in inked : i >= j)

\* the entries with the default layer put first unless one of them names
\* Powertools
ClaimWithDefault(entries) ==
    IF \E i \in 1..Len(entries) : ClaimHasMarker(entries[i]) THEN entries
    ELSE <<AWS_POWER_TOOLS_LAYER_ARN>> \o entries

\* the layers were given as a string or as a list, and validated
ClaimLayersValidated ==
    /\ val_field = "layers"
    /\ val_pc \in {"once", "twice"}
    /\ IsInstance(val_input, "str") \/ IsInstance(val_input, "list")

\* validate_layers is idempotent
ClaimLayersIdempotent ==
    (val_field = "layers" /\ val_pc = "twice") => val_again = val_result

\* C22 as stated: validate_layers returns the trimmed entries of a string or
\* of a list, with the default Powertools ARN first exactly when no entry
\* contains 'awslambdapowertools' in any case, and is idempotent
C22_TrimmedLayers ==
    /\ ClaimLayersValidated =>
           val_result =
               Valid(PyList(ClaimWithDefault(
                   IF IsInstance(val_input, "str") THEN SplitTrim(val_input.str)
                   ELSE [i \in 1..Len(val_input.list) |->
                             ClaimTrimmed(val_input.list[i])])))
    /\ ClaimLayersIdempotent

\* C22: validate_layers returns the trimmed entries of a comma-separated
\* string, or the entries of a list as they were given, with the default
\* Powertools ARN first exactly when no entry contains 'awslambdapowertools'
\* in any case, and is idempotent
C22_Layers ==
    /\ ClaimLayersValidated =>
           val_result =
               Valid(PyList(ClaimWithDefault(
                   IF IsInstance(val_input, "str") THEN SplitTrim(val_input.str)
                   ELSE val_input.list)))
    /\ ClaimLayersIdempotent

\* a list with an entry that is not trimmed was validated twice
C22_Witness ==
    /\ val_field = "layers"
    /\ val_pc = "twice"
    /\ val_input = PyList(<<<<" ", "l">>>>)
    /\ val_result = Valid(PyList(<<AWS_POWER_TOOLS_LAYER_ARN, <<" ", "l">>>>))

\* a string naming Powertools in mixed case was validated: nothing is added
C22_WitnessMarker ==
    /\ val_field = "layers"
    /\ val_pc = "twice"
    /\ val_input = PyStr(<<"l", ",", " ">> \o MixedCaseMarker)
    /\ val_result = Valid(PyList(<<<<"l">>, MixedCaseMarker>>))

\* the hexadecimal digits
ClaimHexDigits ==
    {"0", "1", "2", "3", "4", "5", "6", "7", "8", "9",
     "a", "b", "c", "d", "e", "f", "A", "B", "C", "D", "E", "F"}

\* an entry is 'subnet-' followed by hexadecimal characters
ClaimSubnetForm(entry) ==
    /\ Len(entry) > Len(SubnetPrefix)
    /\ SubSeq(entry, 1, Len(SubnetPrefix)) = SubnetPrefix
    /\ \A i \in (Len(SubnetPrefix) + 1)..Len(entry) : entry[i] \in ClaimHexDigits

\* C23: validate_subnets raises for every input with an entry that is not
\* 'subnet-' followed by hexadecimal characters, and returns the entries of
\* every other input unchanged as a list, a string being split and trimmed
C23_SubnetsHex ==
    (val_field = "subnets" /\ val_pc \in {"once", "twice"}) =>
        LET entries == IF IsInstance(val_input, "str")
                       THEN SplitTrim(val_input.str) ELSE val_input.list
        IN  IF \E i \in 1..Len(entries) : ~ClaimSubnetForm(entries[i])
            THEN val_result.kind # "ok"
            ELSE val_result = Valid(PyList(entries))

----------------------------------------------------------------------------
(* Claims about Config, checked under SpecCfg                             *)

\* None, empty string, empty list, False or 0
ClaimFalsy(value) ==
    value \in {PyNone, PyStr(<<>>), PyList(<<>>), PyBool(FALSE), PyInt(0)}

ClaimFields ==
    {"auth_enabled", "auth_ttl_minutes", "bundle", "layers", "output_dir",
     "preprocessor", "server", "subnets", "vpc_id"}

\* the step is a call of merge
ClaimMergeStep == cfg_pc = "loaded" /\ cfg_pc' = "merged"

\* the call carries a non-empty server_url
ClaimServerUrlGiven(kwargs) ==
    \E i \in 1..Len(kwargs) :
        kwargs[i].key = "server_url" /\ ~ClaimFalsy(kwargs[i].value)

\* C11 as stated: merge leaves every field unchanged whose override is
\* falsy.
C11_FalsySkip ==
    [][ClaimMergeStep =>
          \A i \in 1..Len(cfg_kwargs') :
              (cfg_kwargs'[i].key \in ClaimFields /\ ClaimFalsy(cfg_kwargs'[i].value))
                  => config'[cfg_kwargs'[i].key] = config[cfg_kwargs'[i].key]]_cfgVars

\* C11 amended: merge leaves every field unchanged whose override is falsy,
\* except that the server field is replaced when the same call carries a
\* non-empty server_url.
C11_FalsySkipButServerUrl ==
    [][ClaimMergeStep =>
          \A i \in 1..Len(cfg_kwargs') :
              (/\ cfg_kwargs'[i].key \in ClaimFields
               /\ ClaimFalsy(cfg_kwargs'[i].value)
               /\ ~(cfg_kwargs'[i].key = "server" /\ ClaimServerUrlGiven(cfg_kwargs')))
                  => config'[cfg_kwargs'[i].key] = config[cfg_kwargs'[i].key]]_cfgVars

\* subnets set by the file are kept by a merge that carries an empty list
\* for them and applies another override
C11_Witness ==
    /\ cfg_pc = "merged"
    /\ cfg_error = NoError
    /\ \E i \in 1..Len(cfg_kwargs) : cfg_kwargs[i] = Entry("subnets", PyList(<<>>))
    /\ \E i \in 1..Len(cfg_kwargs) : cfg_kwargs[i] = Entry("layers", PyStr(CustomLayer))
    /\ config.subnets = PyList(<<Subnet1>>)
    /\ config.layers # DefaultConfig.layers

\* C12 as stated: in every state of the Config after its load and after a
\* merge, also a merge that raised, subnets is non-empty if and only if
\* vpc_id is set.
C12_SubnetsIffVpc ==
    cfg_pc \in {"loaded", "merged"} =>
        ((config.subnets.list # <<>>)
            <=> (config.vpc_id # PyNone /\ config.vpc_id # PyStr(<<>>)))

\* a key of the file's top level, of its [auth] table or of its [server]
\* table that is no field
ClaimUnknownInFile(contents) ==
    \E i \in 1..Len(contents) :
        \/ contents[i].key \notin ClaimFields \cup {"auth"}
        \/ /\ contents[i].key = "auth"
           /\ \E k \in DOMAIN contents[i].value.dict : k \notin {"enabled", "ttl_minutes"}
        \/ /\ contents[i].key = "server"
           /\ \E k \in DOMAIN contents[i].value.dict : k \notin {"url", "variables"}

\* an override whose key is no field; server_url is merge's own argument
ClaimUnknownOverride(kwargs) ==
    \E i \in 1..Len(kwargs) : kwargs[i].key \notin ClaimFields \cup {"server_url"}

\* C14 as stated: a key that is no field, in the file or among the
\* overrides, ends load or merge with UnknownConfigValueError.
C14_UnknownKeyFatal ==
    /\ (cfg_pc # "start" /\ cfg_file.kind = "toml"
            /\ ClaimUnknownInFile(cfg_file.contents))
           => (cfg_pc = "failed" /\ cfg_error = Raised("UnknownConfigValueError"))
    /\ (cfg_pc = "merged" /\ ClaimUnknownOverride(cfg_kwargs))
           => cfg_error = Raised("UnknownConfigValueError")

----------------------------------------------------------------------------
(* picofun/cli.py: main                                                    *)

\* security.get_scheme_type_kebab
get_scheme_type_kebab(scheme) ==
    IF scheme.type = "apiKey" THEN "api-key"
    ELSE IF scheme.type = "http" THEN "http"
    ELSE IF scheme.type = "mutualTLS" THEN "mutual-tls"
    ELSE scheme.type

\* the spelling of the scheme types and of their kebab forms
Chars(str) ==
    CASE str = "apiKey"        -> <<"a", "p", "i", "K", "e", "y">>
      [] str = "http"          -> <<"h", "t", "t", "p">>
      [] str = "mutualTLS"     -> <<"m", "u", "t", "u", "a", "l", "T", "L", "S">>
      [] str = "oauth2"        -> <<"o", "a", "u", "t", "h", "2">>
      [] str = "openIdConnect" -> <<"o", "p", "e", "n", "I", "d", "C", "o", "n", "n",
                                    "e", "c", "t">>
      [] str = "unknown"       -> <<"u", "n", "k", "n", "o", "w", "n">>
      [] str = "api-key"       -> <<"a", "p", "i", "-", "k", "e", "y">>
      [] str = "mutual-tls"    -> <<"m", "u", "t", "u", "a", "l", "-", "t", "l", "s">>

\* [A-Z]
IsUpper(c) == \E i \in 1..Len(UpperLetters) : UpperLetters[i] = c

\* re.sub(r"(?<!^)(?=[A-Z])", "-", text): a hyphen before every capital that
\* is not the first character
RECURSIVE HyphenateFrom(_, _)
HyphenateFrom(text, i) ==
    IF i > Len(text) THEN <<>>
    ELSE (IF i > 1 /\ IsUpper(text[i]) THEN <<"-", text[i]>> ELSE <<text[i]>>)
         \o HyphenateFrom(text, i + 1)

\* auth_generator._to_kebab_case
_to_kebab_case(text) == Lower(HyphenateFrom(text, 1))

\* the context generate_auth_hooks renders auth_hooks.py.j2 with
generate_auth_hooks(scheme) ==
    [scheme_name |-> scheme.name,
     scheme_type |-> scheme.type,
     scheme_type_kebab |-> _to_kebab_case(Chars(scheme.type)),
     scheme_scheme |-> scheme.scheme,
     scheme_location |-> scheme.location]

\* obj.attr on an object that has the attributes DOMAIN obj
GetAttr(obj, attr) ==
    IF attr \in DOMAIN obj THEN Valid(obj[attr]) ELSE Raised("AttributeError")

\* the handler that main installs
auth_hooks_preprocessor ==
    <<"a", "u", "t", "h", "_", "h", "o", "o", "k", "s", ".",
      "p", "r", "e", "p", "r", "o", "c", "e", "s", "s", "o", "r">>

\* how main has ended, and the exit code the process then has
Running == [kind |-> "running"]
Uncaught(exception) == [kind |-> "exception", exception |-> exception]
TyperExit(code) == [kind |-> "Exit", code |-> code]
MainReturned == [kind |-> "returned"]

ExitCode(exit) ==
    IF exit.kind = "returned" THEN 0
    ELSE IF exit.kind = "Exit" THEN exit.code
    ELSE 1

\* a log record
LogRecord(level, message, args) == [level |-> level, message |-> message, args |-> args]

\* the longest global security list of the specs main is run on
MaxMainRefs == 2

\* the security section of the specs main is run on
MainSchemeNames == {"a", "b"}
MainShapes ==
    {sh \in SchemeShapes :
        \/ sh.type = "http" /\ sh.scheme = "bearer"
        \/ sh.type = "apiKey" /\ sh.location = "header"
        \/ sh.type = "mutualTLS"
        \/ sh.type = "oauth2"}
MainSchemeMaps ==
    UNION { { [i \in 1..Len(ns) |-> SecurityScheme(ns[i], shs[i])] :
              shs \in [1..Len(ns) -> MainShapes] } :
            ns \in DistinctSeqs(MainSchemeNames) }
MainSecurity == SeqsUpTo(MainSchemeNames, MaxMainRefs)

\* the config files main is run on: those about auth, the preprocessor and
\* the VPC
MainConfigFiles ==
    {f \in ConfigFiles :
        f.kind = "toml" =>
            \A i \in 1..Len(f.contents) :
                f.contents[i].key \in {"auth", "preprocessor", "subnets", "vpc_id"}}

\* main's options; iac is what --iac, --cdk and --tf resolve to
MainCli ==
    [output_dir : {PyNone, PyStr(<<"/", "o">>)}, layers : {PyStr(<<>>)},
     bundle : {PyNone}, server_url : {PyNone}, iac : {PyNone, PyStr(cdk)}]

MainIdle ==
    /\ main_cli = [output_dir |-> PyNone, layers |-> PyStr(<<>>), bundle |-> PyNone,
                   server_url |-> PyNone, iac |-> PyNone]
    /\ main_pc = "idle"
    /\ selected_scheme = PyNone
    /\ auth_scheme_type = None
    /\ main_log = <<>>
    /\ main_written = {}
    /\ main_exit = Running
    /\ infra_call = PyNone
    /\ auth_hooks_context = PyNone

MainInit ==
    /\ main_cli \in MainCli
    /\ cfg_file \in MainConfigFiles
    /\ config = DefaultConfig
    /\ cfg_pc = "idle"
    /\ cfg_kwargs = <<>>
    /\ cfg_error = NoError
    /\ schemes \in MainSchemeMaps
    /\ global_security \in MainSecurity
    /\ sec_pc = "idle"
    /\ sec_result = None
    /\ main_pc = "load"
    /\ selected_scheme = PyNone
    /\ auth_scheme_type = None
    /\ main_log = <<>>
    /\ main_written = {}
    /\ main_exit = Running
    /\ infra_call = PyNone
    /\ auth_hooks_context = PyNone

\* the run goes on after the exception
Mut_MainRaise(exception) ==
    /\ main_pc' = "layer"
    /\ main_exit' = Uncaught(exception)

\* an exception main does not catch ends the run
MainRaise(exception) ==
    /\ main_pc' = "exit"
    /\ main_exit' = Uncaught(exception)

\* config = ConfigLoader(config_file).get_config()
MainLoadConfig ==
    /\ main_pc = "load"
    /\ LET r == load_from_file(cfg_file)
       IN  /\ cfg_error' = r.error
           /\ IF r.error = NoError
              THEN /\ config' = r.config
                   /\ main_pc' = "merge"
                   /\ UNCHANGED main_exit
              ELSE /\ MainRaise(r.error.kind)
                   /\ UNCHANGED config
    /\ UNCHANGED <<cfg_file, cfg_pc, cfg_kwargs, secVars, main_cli, selected_scheme,
                   auth_scheme_type, main_log, main_written, infra_call, auth_hooks_context>>

\* config.merge(output_dir=..., layers=..., bundle=..., server_url=..., iac=iac)
MainMerge ==
    /\ main_pc = "merge"
    /\ LET kwargs == <<Entry("output_dir", main_cli.output_dir),
                       Entry("layers", main_cli.layers),
                       Entry("bundle", main_cli.bundle),
                       Entry("server_url", main_cli.server_url),
                       Entry("iac", main_cli.iac)>>
           r == merge(config, kwargs)
       IN  /\ config' = r.config
           /\ cfg_error' = r.error
           /\ cfg_kwargs' = kwargs
           /\ IF r.error = NoError
              THEN main_pc' = "select" /\ UNCHANGED main_exit
              ELSE MainRaise(r.error.kind)
    /\ UNCHANGED <<cfg_file, cfg_pc, secVars, main_cli, selected_scheme,
                   auth_scheme_type, main_log, main_written, infra_call, auth_hooks_context>>

\* the except clause logs ", ".join(e.unsupported_schemes), then raises
\* typer.Exit(code=1)
MainHandleUnsupported(e) ==
    LET names == GetAttr(e, "unsupported_schemes")
    IN  IF names.kind # "ok"
        THEN MainRaise(names.kind) /\ UNCHANGED main_log
        ELSE /\ main_log' = Append(main_log,
                                   LogRecord("exception", "unsupported", names.value))
             /\ main_pc' = "exit"
             /\ main_exit' = TyperExit(1)

\* spec.parse() and the selection of the security scheme
MainSelectScheme ==
    /\ main_pc = "select"
    /\ IF config.auth_enabled.bool
       THEN LET r == select_security_scheme(schemes, global_security)
            IN  IF r.kind # "return"
                THEN /\ MainHandleUnsupported(r)
                     /\ UNCHANGED <<selected_scheme, auth_scheme_type>>
                ELSE /\ selected_scheme' = r.value
                     /\ IF IsInstance(r.value, "none")
                        THEN /\ main_log' = Append(main_log,
                                                LogRecord("warning", "no scheme", <<>>))
                             /\ UNCHANGED auth_scheme_type
                        ELSE /\ main_log' = Append(main_log,
                                                LogRecord("info", "selected",
                                                          <<r.value.name, r.value.type>>))
                             /\ auth_scheme_type' = get_scheme_type_kebab(r.value)
                     /\ main_pc' = "layer"
                     /\ UNCHANGED main_exit
       ELSE /\ main_pc' = "layer"
            /\ UNCHANGED <<selected_scheme, auth_scheme_type, main_log, main_exit>>
    /\ UNCHANGED <<cfgVars, secVars, main_cli, main_written, infra_call, auth_hooks_context>>

\* Template(...), EndpointFilter(config.include_endpoints), layer.prepare()
MainPrepareLayer ==
    /\ main_pc = "layer"
    /\ main_written' = main_written \cup {"layer"}
    /\ main_log' = Append(main_log, LogRecord("info", "layer", <<>>))
    /\ main_pc' = "hooks"
    /\ UNCHANGED <<cfgVars, secVars, main_cli, selected_scheme, auth_scheme_type,
                   main_exit, infra_call, auth_hooks_context>>

\* the auth hooks, and the preprocessor set past the validators
MainAuthHooks ==
    /\ main_pc = "hooks"
    /\ IF config.auth_enabled.bool /\ ~IsInstance(selected_scheme, "none")
       THEN /\ auth_hooks_context' = generate_auth_hooks(selected_scheme)
            /\ main_written' = main_written \cup {"auth_hooks"}
            /\ main_log' = Append(main_log, LogRecord("info", "auth hooks", <<>>))
            /\ config' = [config EXCEPT !.preprocessor = PyStr(auth_hooks_preprocessor)]
       ELSE UNCHANGED <<main_written, main_log, config, auth_hooks_context>>
    /\ main_pc' = "generate"
    /\ UNCHANGED <<cfg_file, cfg_pc, cfg_kwargs, cfg_error, secVars, main_cli,
                   selected_scheme, auth_scheme_type, main_exit, infra_call>>

\* what lambda_generator.generate(api_data) does on the document's servers:
\* it returns the names, or _resolve_server_url raises
GenerateOutcomes ==
    {"return", "UnknownServerVariableError", "MissingServerVariableError"}

\* lambdas = lambda_generator.generate(api_data)
MainGenerateLambdas ==
    /\ main_pc = "generate"
    /\ \E outcome \in GenerateOutcomes :
           IF outcome = "return"
           THEN /\ main_written' = main_written \cup {"lambdas"}
                /\ main_pc' = "infra"
                /\ UNCHANGED main_exit
           ELSE MainRaise(outcome) /\ UNCHANGED main_written
    /\ UNCHANGED <<cfgVars, secVars, main_cli, selected_scheme, auth_scheme_type,
                   main_log, infra_call, auth_hooks_context>>

\* the choice of the generator by config.iac, and iac_generator.generate(...)
MainGenerateInfra ==
    /\ main_pc = "infra"
    /\ LET iac == GetAttr(config, "iac")
       IN  IF iac.kind # "ok"
           THEN MainRaise(iac.kind) /\ UNCHANGED <<infra_call, main_written>>
           ELSE /\ infra_call' =
                       [generator |-> IF iac.value = PyStr(cdk) THEN "cdk" ELSE "terraform",
                        auth_enabled |-> config.auth_enabled.bool
                                         /\ ~IsInstance(selected_scheme, "none"),
                        auth_scheme_type |-> auth_scheme_type,
                        auth_scheme_name |-> IF IsInstance(selected_scheme, "none")
                                             THEN None ELSE selected_scheme.name,
                        auth_ttl |-> config.auth_ttl_minutes.int * 60]
                /\ main_written' = main_written \cup {"infra"}
                /\ main_pc' = "exit"
                /\ main_exit' = MainReturned
    /\ UNCHANGED <<cfgVars, secVars, main_cli, selected_scheme, auth_scheme_type,
                   main_log, auth_hooks_context>>

----------------------------------------------------------------------------
(* Claims about main, checked under SpecMain                              *)

\* auth is enabled and the preprocessor is not empty
ClaimAuthWithPreprocessor ==
    config.auth_enabled = PyBool(TRUE) /\ config.preprocessor # PyStr(<<>>)

\* C13 as stated: at every point of a run the Config never has auth_enabled
\* true together with a non-empty preprocessor.
C13_AuthExcludesPreprocessor == ~ClaimAuthWithPreprocessor

\* C13 (amended): at every point of a run the Config never has auth_enabled
\* true together with a non-empty preprocessor other than the generated
\* "auth_hooks.preprocessor", which main installs once it has written the
\* auth hooks for the selected scheme.
C13_AuthExcludesCustomPreprocessor ==
    ClaimAuthWithPreprocessor =>
        /\ config.preprocessor = PyStr(auth_hooks_preprocessor)
        /\ "auth_hooks" \in main_written
        /\ selected_scheme # PyNone
        /\ main_pc \in {"generate", "infra", "exit"}

\* the functions are rendered with a custom preprocessor and auth disabled
C13_Witness ==
    /\ main_pc = "infra"
    /\ "lambdas" \in main_written
    /\ config.preprocessor = PyStr(<<"p">>)
    /\ config.auth_enabled = PyBool(FALSE)

\* the functions are rendered with the generated preprocessor and auth
\* enabled
C13_WitnessGenerated ==
    /\ main_pc = "infra"
    /\ "lambdas" \in main_written
    /\ config.preprocessor = PyStr(auth_hooks_preprocessor)
    /\ config.auth_enabled = PyBool(TRUE)

\* the global security references schemes, all of them oauth2 or
\* openIdConnect
ClaimOnlyUnsupported ==
    /\ Referenced # {}
    /\ \A sch \in Referenced : sch.type \in {"oauth2", "openIdConnect"}

\* C16: in a run with auth enabled whose global security references only
\* oauth2/openIdConnect schemes, main catches UnsupportedSecuritySchemeError,
\* logs the names of the unsupported schemes taken from the error and ends
\* with typer.Exit(1), exit code 1, before the layer, the auth hooks, a
\* function file or the infra file is written.
C16_UnsupportedExit ==
    [][(main_pc = "select" /\ config.auth_enabled = PyBool(TRUE)
        /\ ClaimOnlyUnsupported) =>
           /\ main_pc' = "exit"
           /\ main_exit' = TyperExit(1)
           /\ ExitCode(main_exit') = 1
           /\ Len(main_log') = Len(main_log) + 1
           /\ main_log'[Len(main_log')].level = "exception"
           /\ Range(main_log'[Len(main_log')].args) = {sch.name : sch \in Referenced}
           /\ main_written' = {}]_mainVars

\* the condition under which the infra generator is to be told that auth is
\* enabled
ClaimAuthInfra == config.auth_enabled = PyBool(TRUE) /\ selected_scheme # PyNone

\* C17: the infra generator is invoked, with auth_enabled true exactly when
\* config.auth_enabled is true and a scheme was selected; exactly then the
\* auth hooks are written and the call carries the scheme's kebab type, its
\* name and auth_ttl = 60 * auth_ttl_minutes. With auth disabled no scheme
\* is selected, no auth hooks are written and the selection cannot end the
\* run.
C17_InfraAuth ==
    [][/\ main_pc = "infra" =>
              /\ infra_call' # PyNone
              /\ infra_call'.auth_enabled = ClaimAuthInfra
              /\ ("auth_hooks" \in main_written') = ClaimAuthInfra
              /\ ClaimAuthInfra =>
                     /\ infra_call'.auth_scheme_type = get_scheme_type_kebab(selected_scheme)
                     /\ infra_call'.auth_scheme_name = selected_scheme.name
                     /\ infra_call'.auth_ttl = 60 * config.auth_ttl_minutes.int
       /\ (main_pc = "select" /\ config.auth_enabled = PyBool(FALSE)) =>
              /\ main_pc' = "layer"
              /\ selected_scheme' = PyNone
              /\ main_exit' = Running
       /\ (main_pc = "hooks" /\ config.auth_enabled = PyBool(FALSE)) =>
              /\ main_written' = main_written
              /\ "auth_hooks" \notin main_written]_mainVars

\* C29: for a scheme of type apiKey, http or mutualTLS the kebab type
\* generate_auth_hooks passes to the template equals the value of
\* get_scheme_type_kebab, which the infra generator is given
C29_SameKebab ==
    (auth_hooks_context # PyNone
     /\ selected_scheme.type \in {"apiKey", "http", "mutualTLS"}) =>
        /\ auth_hooks_context.scheme_type_kebab =
               Chars(get_scheme_type_kebab(selected_scheme))
        /\ auth_hooks_context.scheme_type_kebab = Chars(auth_scheme_type)

\* the artifacts of a run in the order main writes them
ClaimArtifactsInOrder ==
    /\ "auth_hooks" \in main_written => "layer" \in main_written
    /\ "lambdas" \in main_written =>
           /\ "layer" \in main_written
           /\ ClaimAuthInfra => "auth_hooks" \in main_written
    /\ "infra" \in main_written =>
           /\ "lambdas" \in main_written
           /\ main_exit = MainReturned

----------------------------------------------------------------------------
vars == <<secVars, globVars, filterVars, urlVars, nameVars, genVars, cfgVars,
          ldrVars, valVars, mainVars>>

SecNext == SelectScheme /\ UNCHANGED <<globVars, filterVars, urlVars, nameVars, genVars, cfgVars, ldrVars, valVars, mainVars>>

SecStart ==
    SecInit /\ GlobIdle /\ FilterIdle /\ UrlIdle /\ NameIdle /\ GenIdle /\ CfgIdle
    /\ LdrIdle /\ ValIdle /\ MainIdle

SpecSec == SecStart /\ [][SecNext]_vars

GlobNext == GlobMatch /\ UNCHANGED <<secVars, filterVars, urlVars, nameVars, genVars, cfgVars, ldrVars, valVars, mainVars>>

GlobStart ==
    GlobInit /\ SecIdle /\ FilterIdle /\ UrlIdle /\ NameIdle /\ GenIdle /\ CfgIdle
    /\ LdrIdle /\ ValIdle /\ MainIdle

SpecGlob == GlobStart /\ [][GlobNext]_vars

FilterNext ==
    \/ FilterConstruct /\ UNCHANGED <<secVars, globVars, urlVars, nameVars, genVars, cfgVars, ldrVars, valVars, mainVars>>
    \/ IsIncluded /\ UNCHANGED <<secVars, globVars, urlVars, nameVars, genVars, cfgVars, ldrVars, valVars, mainVars>>

FilterStart ==
    FilterInit /\ SecIdle /\ GlobIdle /\ UrlIdle /\ NameIdle /\ GenIdle /\ CfgIdle
    /\ LdrIdle /\ ValIdle /\ MainIdle

SpecFilter == FilterStart /\ [][FilterNext]_vars

UrlNext == ResolveServerUrl /\ UNCHANGED <<secVars, globVars, filterVars, nameVars, genVars, cfgVars, ldrVars, valVars, mainVars>>

UrlStart ==
    UrlInit /\ SecIdle /\ GlobIdle /\ FilterIdle /\ NameIdle /\ GenIdle /\ CfgIdle
    /\ LdrIdle /\ ValIdle /\ MainIdle

SpecUrl == UrlStart /\ [][UrlNext]_vars

NameNext == GetName /\ UNCHANGED <<secVars, globVars, filterVars, urlVars, genVars, cfgVars, ldrVars, valVars, mainVars>>

NameStart ==
    NameInit /\ SecIdle /\ GlobIdle /\ FilterIdle /\ UrlIdle /\ GenIdle /\ CfgIdle
    /\ LdrIdle /\ ValIdle /\ MainIdle

SpecName == NameStart /\ [][NameNext]_vars

GenNext ==
    \/ FilterConstruct /\ UNCHANGED <<secVars, globVars, urlVars, nameVars, genVars, cfgVars, ldrVars, valVars, mainVars>>
    \/ GenerateStart /\ UNCHANGED <<secVars, globVars, filterVars, urlVars, nameVars, cfgVars, ldrVars, valVars, mainVars>>
    \/ GenerateOperation /\ UNCHANGED <<secVars, globVars, filterVars, urlVars, nameVars, cfgVars, ldrVars, valVars, mainVars>>
    \/ GenerateFinish /\ UNCHANGED <<secVars, globVars, filterVars, urlVars, nameVars, cfgVars, ldrVars, valVars, mainVars>>

GenStart == GenInit /\ SecIdle /\ GlobIdle /\ CfgIdle /\ LdrIdle /\ ValIdle /\ MainIdle

SpecGen == GenStart /\ [][GenNext]_vars

CfgNext ==
    \/ LoadConfig /\ UNCHANGED <<secVars, globVars, filterVars, urlVars, nameVars, genVars, ldrVars, valVars, mainVars>>
    \/ Merge /\ UNCHANGED <<secVars, globVars, filterVars, urlVars, nameVars, genVars, ldrVars, valVars, mainVars>>

CfgStart ==
    CfgInit /\ SecIdle /\ GlobIdle /\ FilterIdle /\ UrlIdle /\ NameIdle /\ GenIdle
    /\ LdrIdle /\ ValIdle /\ MainIdle

SpecCfg == CfgStart /\ [][CfgNext]_vars

MainNext ==
    \/ MainLoadConfig /\ UNCHANGED <<globVars, filterVars, urlVars, nameVars, genVars, ldrVars, valVars>>
    \/ MainMerge /\ UNCHANGED <<globVars, filterVars, urlVars, nameVars, genVars, ldrVars, valVars>>
    \/ MainSelectScheme /\ UNCHANGED <<globVars, filterVars, urlVars, nameVars, genVars, ldrVars, valVars>>
    \/ MainPrepareLayer /\ UNCHANGED <<globVars, filterVars, urlVars, nameVars, genVars, ldrVars, valVars>>
    \/ MainAuthHooks /\ UNCHANGED <<globVars, filterVars, urlVars, nameVars, genVars, ldrVars, valVars>>
    \/ MainGenerateLambdas /\ UNCHANGED <<globVars, filterVars, urlVars, nameVars, genVars, ldrVars, valVars>>
    \/ MainGenerateInfra /\ UNCHANGED <<globVars, filterVars, urlVars, nameVars, genVars, ldrVars, valVars>>

MainStart ==
    MainInit /\ GlobIdle /\ FilterIdle /\ UrlIdle /\ NameIdle /\ GenIdle /\ LdrIdle /\ ValIdle

SpecMain == MainStart /\ [][MainNext]_vars

ValNext ==
    \/ ValidateOnce /\ UNCHANGED <<secVars, globVars, filterVars, urlVars, nameVars, genVars, cfgVars, ldrVars, mainVars>>
    \/ ValidateAgain /\ UNCHANGED <<secVars, globVars, filterVars, urlVars, nameVars, genVars, cfgVars, ldrVars, mainVars>>

ValStart ==
    ValInit /\ LdrIdle /\ SecIdle /\ GlobIdle /\ FilterIdle /\ UrlIdle /\ NameIdle /\ GenIdle
    /\ CfgIdle /\ MainIdle

SpecVal == ValStart /\ [][ValNext]_vars

LdrNext ==
    \/ GetConfigFile /\ UNCHANGED <<secVars, globVars, filterVars, urlVars, nameVars, genVars, cfgVars, valVars, mainVars>>
    \/ LoadFromFile /\ UNCHANGED <<secVars, globVars, filterVars, urlVars, nameVars, genVars, cfgVars, valVars, mainVars>>

LdrStart ==
    LdrInit /\ SecIdle /\ GlobIdle /\ FilterIdle /\ UrlIdle /\ NameIdle /\ GenIdle
    /\ CfgIdle /\ ValIdle /\ MainIdle

SpecLdr == LdrStart /\ [][LdrNext]_vars

====
